---- MODULE Spec2Model ----
(***************************************************************************)
(* A model of the vLLM metrics toolkit's benchmarking engine:              *)
(*   - VLLMMetricsClient.send_request and its stream processing            *)
(*     (vllm_metrics_client.py),                                           *)
(*   - VLLMMetricsClient.enrich_with_server_metrics and the extraction of  *)
(*     the server span's attributes (vllm_metrics_client.py),              *)
(*   - RateLimitedBenchmark.run_benchmark, its two scheduling paths and    *)
(*     its enrichment pass (scripts/benchmark_sharegpt.py),                *)
(*   - calculate_benchmark_summary (vllm_metrics_client.py).               *)
(*                                                                         *)
(* The specifications of the module:                                       *)
(*   ClientSpec   one call of send_request, one step per awaited line;     *)
(*   EnrichSpec   one call of enrich_with_server_metrics, one step per     *)
(*                loop test, poll and sleep;                               *)
(*   Spec         one run of run_benchmark on the asyncio event loop       *)
(*                (FairSpec adds the fairness of the event loop);          *)
(*   CancelSpec   a run that the operator may interrupt;                   *)
(*   PassSpec     one enrichment pass with its clock and the executor's    *)
(*                workers (FairPassSpec adds fairness);                    *)
(*   SummarySpec  calls of calculate_benchmark_summary on one record list; *)
(*   DictSpec     one call of RequestMetrics.to_dict.                      *)
(*                                                                         *)
(* Time is counted in ticks of half a second, so that time.sleep(0.5) is  *)
(* one tick and 1.0 / rps is a whole number of ticks for rps 1 and 2.      *)
(* Python's Optional values are modelled as sequences of length at most    *)
(* one: None is << >>, a value v is <<v>>.                                 *)
(***************************************************************************)
EXTENDS Integers, Sequences, FiniteSets, TLC

VARIABLES
    \* ---- one call of send_request (ClientSpec)
    cpc,        \* position of the call: "start", "streaming", "stream_end", "returned"
    cstream,    \* the stream argument
    cnow,       \* time.perf_counter()
    cfr,        \* the call's frame: its RequestMetrics and the locals of the stream loop
    clines,     \* number of lines read from response.content so far
    ctokens,    \* arrival times of the non-empty content deltas seen so far
    cstatus,    \* response.status, as a sequence of length <= 1
    \* ---- one call of enrich_with_server_metrics (EnrichSpec)
    epc,        \* "test", "poll", "sleep", "finish", "returned"
    etimeout,   \* the timeout argument
    enow,       \* time.time()
    estart,     \* start_time of the call
    edata,      \* server_data
    emetrics,   \* the RequestMetrics being enriched
    eret,       \* the returned boolean, as a sequence of length <= 1
    ereplies,   \* the replies the GETs of the call got, in order
    \* ---- one run of RateLimitedBenchmark.run_benchmark (Spec)
    rps,        \* self.rps
    nprompts,   \* len(prompts)
    pc,         \* position of run_benchmark
    now,        \* the clock: time.time(), the event loop's time, time.perf_counter()
    start_time, \* run_benchmark's start_time, as a sequence of length <= 1
    end_time,   \* run_benchmark's end_time, as a sequence of length <= 1
    tasks,      \* the request units, in submission order
    doneq,      \* settled request units not yet handed out by asyncio.as_completed
    completed,  \* _gather_with_progress's completed
    gresults,   \* _gather_with_progress's results
    results,    \* self.results: references to RequestMetrics objects
    heap,       \* the RequestMetrics objects created so far; a reference is an index
    etasks,     \* the enrichment units, in creation order
    writers,    \* for each object, the units that have written it
    reports,    \* the progress lines _gather_with_progress has printed
    \* ---- one enrichment pass, _collect_server_metrics, with its clock (PassSpec)
    ppc,        \* position of the pass: "collect", "wait", "returned"
    pnow,       \* time.time()
    precords,   \* self.results, the records themselves
    pstore,     \* the trace store: for each record, the tick from which its trace is served
    punits,     \* the enrichment units, in creation order
    \* ---- calls of calculate_benchmark_summary on one record list (SummarySpec)
    spc,        \* "ready" before a call, "returned" after one
    srecords,   \* the results argument: the list of records
    sstart,     \* the start_time argument
    send,       \* the end_time argument
    ssummaries, \* the summaries the calls returned, in order
    \* ---- one call of RequestMetrics.to_dict (DictSpec)
    dpc,        \* "ready" before the call, "returned" after it
    drecord,    \* self: the record
    ddict       \* the returned dict, as a sequence of length <= 1

clientVars == <<cpc, cstream, cnow, cfr, clines, ctokens, cstatus>>
enrichVars == <<epc, etimeout, enow, estart, edata, emetrics, eret, ereplies>>
runVars == <<rps, nprompts, pc, now, start_time, end_time, tasks, doneq, completed,
             gresults, results, heap, etasks, writers, reports>>
passVars == <<ppc, pnow, precords, pstore, punits>>
summaryVars == <<spc, srecords, sstart, send, ssummaries>>
dictVars == <<dpc, drecord, ddict>>
vars == <<clientVars, enrichVars, runVars, passVars, summaryVars, dictVars>>

-----------------------------------------------------------------------------
(* Bounds of the model *)

\* most lines read from one response stream
MaxLines == 3
\* most ticks between two events of one call
MaxGap == 2
\* largest timeout given to enrich_with_server_metrics, in ticks
MaxTimeout == 2

-----------------------------------------------------------------------------
(* Optional values and small helpers *)

None == << >>
Some(v) == <<v>>
Val(o) == o[1]

\* seconds * 1000, of a duration given in ticks
Ms(ticks) == ticks * 500

RECURSIVE SumSeq(_)
SumSeq(s) == IF s = << >> THEN 0 ELSE Head(s) + SumSeq(Tail(s))

-----------------------------------------------------------------------------
(* RequestMetrics *)

\* trace ids: uuid4 values are fresh, the benchmark driver's literal is "failed"
UuidTrace(n) == [kind |-> "uuid", n |-> n]
FailedTrace == [kind |-> "failed", n |-> 0]

\* the dataclass with the defaults of its fields
RequestMetrics(request_id, trace_id, success, error_message, send_time) ==
    [request_id |-> request_id,
     trace_id |-> trace_id,
     success |-> success,
     error_message |-> error_message,
     send_time |-> send_time,
     client_e2e_latency |-> 0,
     client_ttft |-> None,
     client_tpot |-> None,
     client_itl |-> None,
     server_queue_time |-> None,
     server_prefill_time |-> None,
     server_decode_time |-> None,
     server_inference_time |-> None,
     server_e2e_time |-> None,
     server_ttft |-> None,
     prompt_tokens |-> None,
     completion_tokens |-> None,
     model_name |-> None,
     temperature |-> None,
     top_p |-> None,
     max_tokens |-> None,
     generated_text |-> 0,
     client_itl_list |-> << >>]

\* the string representations of the exceptions a call can meet; an exception
\* without arguments (asyncio.TimeoutError()) has the empty string
ExcMessages == {"", "Connection reset by peer"}

\* the statuses the server answers with
Statuses == {200, 201, 500}

\* str(KeyError("choices"))
KeyErrorText == "'choices'"

HttpErrorText(status) ==
    IF status = 201 THEN "HTTP 201: body" ELSE "HTTP 500: body"

-----------------------------------------------------------------------------
(* send_request, piece by piece.  A frame holds the call's metrics object  *)
(* and the locals of _process_streaming_response.  generated_text is       *)
(* modelled by the number of content deltas concatenated into it.          *)

\* lines 204-214 and 264-267
SendRequestEnter(request_id, trace_id, wall, perf) ==
    [metrics |-> RequestMetrics(request_id, trace_id, FALSE, "", Some(wall)),
     start_time |-> perf,
     generated_text |-> 0,
     first_token_time |-> None,
     inter_token_latencies |-> << >>,
     most_recent_timestamp |-> perf]

\* lines 244-247
HttpStatusError(fr, status) ==
    [fr EXCEPT !.metrics.error_message = HttpErrorText(status)]

\* lines 257-258
ExceptHandler(fr, msg) ==
    [fr EXCEPT !.metrics.error_message = msg]

\* the kinds of line response.content yields
LineKinds == {"blank", "done", "badjson", "content", "empty", "nochoices"}

\* a mutant: the first token's time is kept but not stored as TTFT
OnTokenKeepsTtftLocal(fr, t) ==
    IF fr.first_token_time = None
    THEN [fr EXCEPT !.first_token_time = Some(t),
                    !.generated_text = @ + 1,
                    !.most_recent_timestamp = t]
    ELSE [fr EXCEPT !.inter_token_latencies = Append(@, t - fr.most_recent_timestamp),
                    !.generated_text = @ + 1,
                    !.most_recent_timestamp = t]

\* a mutant: the time of the previous token is not kept, every gap is
\* counted from the first token
OnTokenGapsFromFirst(fr, t) ==
    IF fr.first_token_time = None
    THEN [fr EXCEPT !.first_token_time = Some(t),
                    !.metrics.client_ttft = Some(Ms(t - fr.start_time)),
                    !.generated_text = @ + 1,
                    !.most_recent_timestamp = t]
    ELSE [fr EXCEPT !.inter_token_latencies = Append(@, t - Val(fr.first_token_time)),
                    !.generated_text = @ + 1]

\* lines 279-289: a non-empty content delta read at perf_counter() = t
OnToken(fr, t) ==
    IF fr.first_token_time = None
    THEN [fr EXCEPT !.first_token_time = Some(t),
                    !.metrics.client_ttft = Some(Ms(t - fr.start_time)),
                    !.generated_text = @ + 1,
                    !.most_recent_timestamp = t]
    ELSE [fr EXCEPT !.inter_token_latencies = Append(@, t - fr.most_recent_timestamp),
                    !.generated_text = @ + 1,
                    !.most_recent_timestamp = t]

\* lines 270-292: one iteration of the loop over response.content.
\* ctl is "next" (go on), "break" ([DONE]) or "raise" (an exception other than
\* json.JSONDecodeError leaves the loop: KeyError/IndexError of a payload
\* without choices[0].delta)
StreamLineStep(fr, kind, t) ==
    CASE kind = "blank" -> [fr |-> fr, ctl |-> "next"]
      [] kind = "done" -> [fr |-> fr, ctl |-> "break"]
      [] kind = "badjson" -> [fr |-> fr, ctl |-> "next"]
      [] kind = "empty" -> [fr |-> fr, ctl |-> "next"]
      [] kind = "nochoices" -> [fr |-> fr, ctl |-> "raise"]
      [] kind = "content" -> [fr |-> OnToken(fr, t), ctl |-> "next"]

\* line 302: (sum / len) * 1000, rounded down to a whole millisecond
MeanMs(list) == Ms(SumSeq(list)) \div Len(list)

\* a mutant: without any gap the two means are stored as 0
StreamFinishZeroMeans(fr, t) ==
    LET m1 == [fr.metrics EXCEPT !.client_e2e_latency = Ms(t - fr.start_time),
                                 !.generated_text = fr.generated_text,
                                 !.client_itl_list = fr.inter_token_latencies]
        m2 == IF fr.inter_token_latencies # << >>
              THEN [m1 EXCEPT !.client_tpot = Some(MeanMs(fr.inter_token_latencies)),
                              !.client_itl = Some(MeanMs(fr.inter_token_latencies))]
              ELSE [m1 EXCEPT !.client_tpot = Some(0), !.client_itl = Some(0)]
    IN  [fr EXCEPT !.metrics = m2]

\* lines 294-303, end_time = t
StreamFinish(fr, t) ==
    LET m1 == [fr.metrics EXCEPT !.client_e2e_latency = Ms(t - fr.start_time),
                                 !.generated_text = fr.generated_text,
                                 !.client_itl_list = fr.inter_token_latencies]
        m2 == IF fr.inter_token_latencies # << >>
              THEN [m1 EXCEPT !.client_tpot = Some(MeanMs(fr.inter_token_latencies)),
                              !.client_itl = Some(MeanMs(fr.inter_token_latencies))]
              ELSE m1
    IN  [fr EXCEPT !.metrics = m2]

\* lines 307-313, end_time = t
NonStreamingFinish(fr, t, hasChoices) ==
    [fr EXCEPT !.metrics.client_e2e_latency = Ms(t - fr.start_time),
               !.metrics.generated_text = IF hasChoices THEN 1 ELSE 0]

\* line 255
MarkSuccess(fr) == [fr EXCEPT !.metrics.success = TRUE]

-----------------------------------------------------------------------------
(* The trace store's replies and _extract_server_metrics_from_trace.       *)
(* A reply is an exception of requests.get, a status other than 200, or a  *)
(* JSON graph: data is a sequence of traces, a trace a sequence of spans,  *)
(* a span has an operationName and tags.  The tags are given as the dict   *)
(* line 346 builds (key -> value); wellformed is FALSE when building it    *)
(* raises (a tag without "key" or "value").  A tag's value is a number of  *)
(* seconds (or a count), or a text float()/int() reject.                   *)

Num(v) == [ok |-> TRUE, v |-> v]
Junk == [ok |-> FALSE, v |-> 0]

LatencyTags == {"gen_ai.latency.time_in_queue",
                "gen_ai.latency.time_in_model_prefill",
                "gen_ai.latency.time_in_model_decode",
                "gen_ai.latency.time_in_model_inference",
                "gen_ai.latency.e2e",
                "gen_ai.latency.time_to_first_token"}
OtherTags == {"gen_ai.usage.prompt_tokens",
              "gen_ai.usage.completion_tokens",
              "gen_ai.response.model",
              "gen_ai.request.temperature",
              "gen_ai.request.top_p",
              "gen_ai.request.max_tokens"}

NoTags == [k \in {} |-> Junk]
AllTags(val) == [k \in LatencyTags \cup OtherTags |-> val]
QueueOnlyTags == [k \in {"gen_ai.latency.time_in_queue"} |-> Num(2)]
UsageOnlyTags == [k \in {"gen_ai.usage.prompt_tokens", "gen_ai.usage.completion_tokens"}
                  |-> Num(7)]

SpanOf(name, tags, wellformed) ==
    [operationName |-> name, tags |-> tags, wellformed |-> wellformed]

ReplyOf(kind, data) == [kind |-> kind, data |-> data]

\* the replies one poll can get
Replies ==
    {ReplyOf("exception", << >>),
     ReplyOf("status404", << >>),
     ReplyOf("ok", << >>),
     ReplyOf("ok", << <<SpanOf("GET /v1/chat", AllTags(Num(1)), TRUE)>> >>),
     ReplyOf("ok", << <<SpanOf("GET /v1/chat", NoTags, TRUE),
                        SpanOf("llm_request", NoTags, TRUE)>> >>),
     ReplyOf("ok", << <<SpanOf("llm_request", AllTags(Num(3)), TRUE)>> >>),
     ReplyOf("ok", << <<SpanOf("llm_request", QueueOnlyTags, TRUE)>> >>),
     ReplyOf("ok", << <<SpanOf("llm_request", UsageOnlyTags, TRUE)>> >>),
     ReplyOf("ok", << <<SpanOf("llm_request", AllTags(Junk), TRUE)>> >>),
     ReplyOf("ok", << <<SpanOf("llm_request", AllTags(Num(3)), FALSE)>> >>)}

\* dict.get
TagGet(tags, key) == IF key \in DOMAIN tags THEN Some(tags[key]) ELSE None

\* lines 414-421
SafeFloatMs(value) ==
    IF value # None /\ Val(value).ok THEN Some(Val(value).v * 1000) ELSE None

\* lines 423-430
SafeFloat(value) ==
    IF value # None /\ Val(value).ok THEN Some(Val(value).v) ELSE None

\* lines 432-439
SafeInt(value) ==
    IF value # None /\ Val(value).ok THEN Some(Val(value).v) ELSE None

\* the spans of all traces, in the order lines 343-344 visit them
RECURSIVE SpansOf(_)
SpansOf(data) == IF data = << >> THEN << >> ELSE Head(data) \o SpansOf(Tail(data))

\* Python's {} : the empty dict
EmptyDict == [k \in {} |-> None]

\* Python's truth value of a dict
Truthy(dict) == DOMAIN dict # {}

\* lines 346-361: the dict returned for the span found
SpanMetrics(tags) ==
    [queue_time |-> SafeFloatMs(TagGet(tags, "gen_ai.latency.time_in_queue")),
     prefill_time |-> SafeFloatMs(TagGet(tags, "gen_ai.latency.time_in_model_prefill")),
     decode_time |-> SafeFloatMs(TagGet(tags, "gen_ai.latency.time_in_model_decode")),
     inference_time |-> SafeFloatMs(TagGet(tags, "gen_ai.latency.time_in_model_inference")),
     e2e_time |-> SafeFloatMs(TagGet(tags, "gen_ai.latency.e2e")),
     ttft |-> SafeFloatMs(TagGet(tags, "gen_ai.latency.time_to_first_token")),
     prompt_tokens |-> SafeInt(TagGet(tags, "gen_ai.usage.prompt_tokens")),
     completion_tokens |-> SafeInt(TagGet(tags, "gen_ai.usage.completion_tokens")),
     model |-> TagGet(tags, "gen_ai.response.model"),
     temperature |-> SafeFloat(TagGet(tags, "gen_ai.request.temperature")),
     top_p |-> SafeFloat(TagGet(tags, "gen_ai.request.top_p")),
     max_tokens |-> SafeInt(TagGet(tags, "gen_ai.request.max_tokens"))]

\* lines 340-365: the first span named "llm_request" decides; an exception
\* while reading it gives {}
ExtractServerMetricsFromTrace(data) ==
    LET spans == SpansOf(data)
        hits == {i \in 1..Len(spans) : spans[i].operationName = "llm_request"}
    IN  IF hits = {} THEN EmptyDict
        ELSE LET span == spans[CHOOSE i \in hits : \A j \in hits : i <= j]
             IN  IF span.wellformed THEN SpanMetrics(span.tags) ELSE EmptyDict

\* dict.get of lines 398-410: a missing key gives None
DataGet(server_data, key) ==
    IF key \in DOMAIN server_data THEN server_data[key] ELSE None

\* a mutant: a failed lookup marks the request itself as failed
EnrichFinishMarksFailed(metrics, server_data) ==
    IF ~Truthy(server_data)
    THEN [metrics |-> [metrics EXCEPT !.success = FALSE,
                                      !.error_message = "no server metrics"],
          ret |-> FALSE]
    ELSE [metrics |->
            [metrics EXCEPT
                !.server_queue_time = DataGet(server_data, "queue_time"),
                !.server_prefill_time = DataGet(server_data, "prefill_time"),
                !.server_decode_time = DataGet(server_data, "decode_time"),
                !.server_inference_time = DataGet(server_data, "inference_time"),
                !.server_e2e_time = DataGet(server_data, "e2e_time"),
                !.server_ttft = DataGet(server_data, "ttft"),
                !.prompt_tokens = DataGet(server_data, "prompt_tokens"),
                !.completion_tokens = DataGet(server_data, "completion_tokens"),
                !.model_name = DataGet(server_data, "model"),
                !.temperature = DataGet(server_data, "temperature"),
                !.top_p = DataGet(server_data, "top_p"),
                !.max_tokens = DataGet(server_data, "max_tokens")],
          ret |-> TRUE]

\* lines 394-412: what the call does once the loop is left
EnrichFinish(metrics, server_data) ==
    IF ~Truthy(server_data)
    THEN [metrics |-> metrics, ret |-> FALSE]
    ELSE [metrics |->
            [metrics EXCEPT
                !.server_queue_time = DataGet(server_data, "queue_time"),
                !.server_prefill_time = DataGet(server_data, "prefill_time"),
                !.server_decode_time = DataGet(server_data, "decode_time"),
                !.server_inference_time = DataGet(server_data, "inference_time"),
                !.server_e2e_time = DataGet(server_data, "e2e_time"),
                !.server_ttft = DataGet(server_data, "ttft"),
                !.prompt_tokens = DataGet(server_data, "prompt_tokens"),
                !.completion_tokens = DataGet(server_data, "completion_tokens"),
                !.model_name = DataGet(server_data, "model"),
                !.temperature = DataGet(server_data, "temperature"),
                !.top_p = DataGet(server_data, "top_p"),
                !.max_tokens = DataGet(server_data, "max_tokens")],
          ret |-> TRUE]

-----------------------------------------------------------------------------
(* send_request as a whole: the response of the server is given at once,   *)
(* as the status, the lines of the stream with the ticks before each, and  *)
(* how the stream ends.                                                    *)

Line(kind, dt) == [kind |-> kind, dt |-> dt]

\* outcome is "reply" (send_request returns), "client_raises" (send_request
\* raises, lines 193-202 build the record) or "handler_raises" (line 194
\* raises in turn and the unit ends in an exception)
ResponseOf(outcome, post, status, postdt, lines, tail, taildt, msg) ==
    [outcome |-> outcome, post |-> post, status |-> status, postdt |-> postdt,
     lines |-> lines, tail |-> tail, taildt |-> taildt, msg |-> msg]

\* lines 269-292: the loop, from a frame at time t
RECURSIVE StreamFold(_, _, _)
StreamFold(fr, lines, t) ==
    IF lines = << >>
    THEN [fr |-> fr, t |-> t, ctl |-> "eof"]
    ELSE LET at == t + Head(lines).dt
             r == StreamLineStep(fr, Head(lines).kind, at)
         IN  IF r.ctl = "next"
             THEN StreamFold(r.fr, Tail(lines), at)
             ELSE [fr |-> r.fr, t |-> at, ctl |-> r.ctl]

\* lines 213-260 with stream = True, on the frame of lines 204-211:
\* the returned metrics and the time of the return
SendRequest(fr, resp) ==
    LET t1 == fr.start_time + resp.postdt
        s == StreamFold(fr, resp.lines, t1)
    IN  IF resp.post = "raise"
        THEN [metrics |-> ExceptHandler(fr, resp.msg).metrics, t |-> t1]
        ELSE IF resp.status # 200
        THEN [metrics |-> HttpStatusError(fr, resp.status).metrics, t |-> t1]
        ELSE IF s.ctl = "raise"
        THEN [metrics |-> ExceptHandler(s.fr, KeyErrorText).metrics, t |-> s.t]
        ELSE IF s.ctl = "eof" /\ resp.tail = "raise"
        THEN [metrics |-> ExceptHandler(s.fr, resp.msg).metrics, t |-> s.t + resp.taildt]
        ELSE [metrics |-> MarkSuccess(StreamFinish(s.fr, s.t + resp.taildt)).metrics,
              t |-> s.t + resp.taildt]

-----------------------------------------------------------------------------
(* ClientSpec: one call of send_request *)

\* lines 204-214: the call is entered at any reading of the clock
ClientInit ==
    /\ cpc = "start"
    /\ cstream \in BOOLEAN
    /\ cnow \in 0..MaxGap
    /\ cfr = SendRequestEnter(1, UuidTrace(1), 0, cnow)
    /\ clines = 0
    /\ ctokens = << >>
    /\ cstatus = None
    \* no call of enrich_with_server_metrics, no run
    /\ epc = "idle" /\ etimeout = 0 /\ enow = 0 /\ estart = 0 /\ edata = EmptyDict
    /\ emetrics = RequestMetrics(0, UuidTrace(0), FALSE, "", None)
    /\ eret = None /\ ereplies = << >>
    /\ rps = 0 /\ nprompts = 0 /\ pc = "idle" /\ now = 0
    /\ start_time = None /\ end_time = None
    /\ tasks = << >> /\ doneq = << >> /\ completed = 0 /\ gresults = << >>
    /\ results = << >> /\ heap = << >> /\ etasks = << >> /\ writers = << >>
    /\ reports = << >>
    /\ ppc = "idle" /\ pnow = 0 /\ precords = << >> /\ pstore = << >> /\ punits = << >>
    /\ spc = "idle" /\ srecords = << >> /\ sstart = 0 /\ send = 0 /\ ssummaries = << >>
    /\ dpc = "idle" /\ drecord = RequestMetrics(0, UuidTrace(0), FALSE, "", None) /\ ddict = << >>

\* lines 237-242 raise (connection refused, timeout): lines 257-260
PostRaises ==
    /\ cpc = "start"
    /\ \E msg \in ExcMessages, dt \in 0..MaxGap :
        /\ cnow' = cnow + dt
        /\ cfr' = ExceptHandler(cfr, msg)
    /\ cpc' = "returned"
    /\ UNCHANGED <<cstream, clines, ctokens, cstatus, enrichVars, runVars, passVars, summaryVars, dictVars>>

\* lines 237-253: the response's status line arrives
PostReplies ==
    /\ cpc = "start"
    /\ \E status \in Statuses, dt \in 0..MaxGap :
        /\ cnow' = cnow + dt
        /\ cstatus' = Some(status)
        /\ IF status # 200
           THEN cfr' = HttpStatusError(cfr, status) /\ cpc' = "returned"
           ELSE cfr' = cfr /\ cpc' = IF cstream THEN "streaming" ELSE "body"
    /\ UNCHANGED <<cstream, clines, ctokens, enrichVars, runVars, passVars, summaryVars, dictVars>>

\* lines 269-292: one line of the stream arrives
StreamLine ==
    /\ cpc = "streaming"
    /\ clines < MaxLines
    /\ \E kind \in LineKinds, dt \in 0..MaxGap :
        LET r == StreamLineStep(cfr, kind, cnow + dt) IN
        /\ cnow' = cnow + dt
        /\ clines' = clines + 1
        /\ ctokens' = IF kind = "content" THEN Append(ctokens, cnow + dt) ELSE ctokens
        /\ CASE r.ctl = "next" -> cfr' = r.fr /\ cpc' = "streaming"
             [] r.ctl = "break" -> cfr' = r.fr /\ cpc' = "stream_end"
             [] r.ctl = "raise" -> cfr' = ExceptHandler(r.fr, KeyErrorText) /\ cpc' = "returned"
    /\ UNCHANGED <<cstream, cstatus, enrichVars, runVars, passVars, summaryVars, dictVars>>

\* line 269 raises while waiting for the next line (the connection drops)
StreamReadRaises ==
    /\ cpc = "streaming"
    /\ \E msg \in ExcMessages, dt \in 0..MaxGap :
        /\ cnow' = cnow + dt
        /\ cfr' = ExceptHandler(cfr, msg)
    /\ cpc' = "returned"
    /\ UNCHANGED <<cstream, clines, ctokens, cstatus, enrichVars, runVars, passVars, summaryVars, dictVars>>

\* lines 294-303 and 255: the stream ended (after [DONE], or at its end)
StreamEnds ==
    /\ cpc \in {"streaming", "stream_end"}
    /\ \E dt \in 0..MaxGap :
        /\ cnow' = cnow + dt
        /\ cfr' = MarkSuccess(StreamFinish(cfr, cnow + dt))
    /\ cpc' = "returned"
    /\ UNCHANGED <<cstream, clines, ctokens, cstatus, enrichVars, runVars, passVars, summaryVars, dictVars>>

\* lines 305-313 and 255: the body of a non-streamed response is read
BodyRead ==
    /\ cpc = "body"
    /\ \E hasChoices \in BOOLEAN, dt \in 0..MaxGap :
        /\ cnow' = cnow + dt
        /\ cfr' = MarkSuccess(NonStreamingFinish(cfr, cnow + dt, hasChoices))
    /\ cpc' = "returned"
    /\ UNCHANGED <<cstream, clines, ctokens, cstatus, enrichVars, runVars, passVars, summaryVars, dictVars>>

\* line 307 raises (the body is no JSON, the connection drops)
BodyRaises ==
    /\ cpc = "body"
    /\ \E msg \in ExcMessages, dt \in 0..MaxGap :
        /\ cnow' = cnow + dt
        /\ cfr' = ExceptHandler(cfr, msg)
    /\ cpc' = "returned"
    /\ UNCHANGED <<cstream, clines, ctokens, cstatus, enrichVars, runVars, passVars, summaryVars, dictVars>>

ClientNext ==
    \/ PostRaises
    \/ PostReplies
    \/ StreamLine
    \/ StreamReadRaises
    \/ StreamEnds
    \/ BodyRead
    \/ BodyRaises

ClientSpec == ClientInit /\ [][ClientNext]_vars

-----------------------------------------------------------------------------
(* EnrichSpec: one call of enrich_with_server_metrics.  A tick is the      *)
(* pause between two polls.                                                *)

\* line 392: time.sleep(0.5), in ticks
PollSleep == 1

\* a record of a successful streamed request and one of a failed request
StreamedRecord ==
    MarkSuccess(StreamFinish(OnToken(OnToken(
        SendRequestEnter(1, UuidTrace(1), 0, 0), 1), 2), 3)).metrics
RefusedRecord == HttpStatusError(SendRequestEnter(2, UuidTrace(2), 0, 0), 500).metrics

\* lines 378-379
EnrichInit ==
    /\ epc = "test"
    /\ etimeout \in 0..MaxTimeout
    /\ enow \in 0..1
    /\ estart = enow
    /\ edata = EmptyDict
    /\ emetrics \in {StreamedRecord, RefusedRecord}
    /\ eret = None
    /\ ereplies = << >>
    \* no call of send_request, no run
    /\ cpc = "idle" /\ cstream = TRUE /\ cnow = 0 /\ clines = 0 /\ ctokens = << >>
    /\ cstatus = None
    /\ cfr = SendRequestEnter(0, UuidTrace(0), 0, 0)
    /\ rps = 0 /\ nprompts = 0 /\ pc = "idle" /\ now = 0
    /\ start_time = None /\ end_time = None
    /\ tasks = << >> /\ doneq = << >> /\ completed = 0 /\ gresults = << >>
    /\ results = << >> /\ heap = << >> /\ etasks = << >> /\ writers = << >>
    /\ reports = << >>
    /\ ppc = "idle" /\ pnow = 0 /\ precords = << >> /\ pstore = << >> /\ punits = << >>
    /\ spc = "idle" /\ srecords = << >> /\ sstart = 0 /\ send = 0 /\ ssummaries = << >>
    /\ dpc = "idle" /\ drecord = RequestMetrics(0, UuidTrace(0), FALSE, "", None) /\ ddict = << >>

\* a mutant: the loop goes on while the elapsed time is at most the timeout
EnrichLoopTestInclusive ==
    /\ epc = "test"
    /\ epc' = IF enow - estart <= etimeout THEN "poll" ELSE "finish"
    /\ UNCHANGED <<etimeout, enow, estart, edata, emetrics, eret, ereplies, clientVars, runVars, passVars, summaryVars, dictVars>>

\* line 381: the loop's test
EnrichLoopTest ==
    /\ epc = "test"
    /\ epc' = IF enow - estart < etimeout THEN "poll" ELSE "finish"
    /\ UNCHANGED <<etimeout, enow, estart, edata, emetrics, eret, ereplies, clientVars, runVars, passVars, summaryVars, dictVars>>

\* lines 382-390: one GET and what is made of its reply
EnrichPoll ==
    /\ epc = "poll"
    /\ \E reply \in Replies, dt \in 0..MaxGap :
        /\ enow' = enow + dt
        /\ ereplies' = Append(ereplies, reply)
        /\ IF reply.kind = "ok"
           THEN /\ edata' = ExtractServerMetricsFromTrace(reply.data)
                /\ epc' = IF Truthy(edata') THEN "finish" ELSE "sleep"
           ELSE /\ edata' = edata
                /\ epc' = "sleep"
    /\ UNCHANGED <<etimeout, estart, emetrics, eret, clientVars, runVars, passVars, summaryVars, dictVars>>

\* line 392
EnrichSleep ==
    /\ epc = "sleep"
    /\ enow' = enow + PollSleep
    /\ epc' = "test"
    /\ UNCHANGED <<etimeout, estart, edata, emetrics, eret, ereplies, clientVars, runVars, passVars, summaryVars, dictVars>>

\* lines 394-412
EnrichReturn ==
    /\ epc = "finish"
    /\ LET r == EnrichFinish(emetrics, edata) IN
        /\ emetrics' = r.metrics
        /\ eret' = Some(r.ret)
    /\ epc' = "returned"
    /\ UNCHANGED <<etimeout, enow, estart, edata, ereplies, clientVars, runVars, passVars, summaryVars, dictVars>>

EnrichNext ==
    \/ EnrichLoopTest
    \/ EnrichPoll
    \/ EnrichSleep
    \/ EnrichReturn

EnrichSpec == EnrichInit /\ [][EnrichNext]_vars

\* the thread of the call runs on, and every GET and every sleep ends
FairEnrichSpec == EnrichInit /\ [][EnrichNext]_vars /\ WF_vars(EnrichNext)

-----------------------------------------------------------------------------
(* Spec: one run of RateLimitedBenchmark.run_benchmark.                    *)
(*                                                                         *)
(* The event loop is single-threaded: a unit runs only while run_benchmark *)
(* is suspended in an await (pc in Awaiting).  Time passes only when the   *)
(* loop has nothing ready to run: no unit just created, no sleep that is   *)
(* due, no completion waiting to be handed out (the loop's timers have no  *)
(* jitter in the model).                                                   *)

\* most prompts of a run
MaxPrompts == 2

\* most ticks the clock advances while the enrichment calls run
MaxEnrichTicks == 2

\* the rates tried: negative, zero, one and two requests per second
RpsValues == {0 - 1, 0, 1, 2}

\* line 73: 1.0 / rps if rps > 0 else 0, in ticks
Interval(r) == IF r > 0 THEN 2 \div r ELSE 0

\* a mutant: every unit gets the same delay
DelayConstant(i, interval) == interval

\* line 116: the delay of the unit of index i (from 0)
Delay(i, interval) == i * interval

\* the responses the units of a run get
RunResponses ==
    {ResponseOf("reply", "ok", 200, 0,
                <<Line("content", 1), Line("content", 1), Line("done", 0)>>, "eof", 0, ""),
     ResponseOf("reply", "ok", 200, 0, <<Line("done", 1)>>, "eof", 0, ""),
     ResponseOf("reply", "ok", 500, 0, << >>, "eof", 0, ""),
     ResponseOf("reply", "ok", 200, 0,
                <<Line("content", 1), Line("nochoices", 0)>>, "eof", 0, ""),
     ResponseOf("reply", "ok", 200, 0, <<Line("content", 1)>>, "raise", 2,
                "Connection reset by peer"),
     ResponseOf("client_raises", "raise", 0, 0, << >>, "eof", 0, "Connection reset by peer"),
     ResponseOf("handler_raises", "raise", 0, 0, << >>, "eof", 0, "Connection reset by peer")}

\* ticks from the start of a request to the end of its unit
Duration(resp) ==
    IF resp.outcome = "reply"
    THEN SendRequest(SendRequestEnter(0, UuidTrace(0), 0, 0), resp).t
    ELSE 0

MaxDuration == CHOOSE d \in {Duration(r) : r \in RunResponses} :
                    \A r \in RunResponses : Duration(r) <= d

\* what the polls of one enrichment unit end with: nothing within the
\* timeout, or the extraction of the reply that ended the loop
RunServerData ==
    {EmptyDict,
     ExtractServerMetricsFromTrace(<< <<SpanOf("llm_request", AllTags(Num(3)), TRUE)>> >>),
     ExtractServerMetricsFromTrace(<< <<SpanOf("llm_request", NoTags, TRUE)>> >>)}

\* request ids: str(uuid.uuid4()) of line 204, f"req_{index}" of line 197
UuidRequest(n) == [kind |-> "uuid", n |-> n]
IndexRequest(index) == [kind |-> "req", n |-> index]

\* a unit as create_task (line 117) or gather (line 107) makes it
NewTask(delay) ==
    [state |-> "created", delay |-> delay, wake |-> None, started |-> None,
     obj |-> 0, result |-> 0]

Settled(task) == task.state \in {"returned", "raised"}

\* the positions of run_benchmark at which the loop runs the units: its
\* awaits, and the end of a cancelled run (asyncio.run runs the loop until
\* the cancelled units have ended)
Awaiting == {"gather", "unl_gather", "enrich_wait", "cancelled"}

RunInit ==
    /\ rps \in RpsValues
    /\ nprompts \in 1..MaxPrompts
    /\ pc = "begin"
    /\ now = 0
    /\ start_time = None /\ end_time = None
    /\ tasks = << >> /\ doneq = << >> /\ completed = 0 /\ gresults = << >>
    /\ results = << >> /\ heap = << >> /\ etasks = << >> /\ writers = << >>
    /\ reports = << >>
    \* no separate call of send_request or enrich_with_server_metrics
    /\ cpc = "idle" /\ cstream = TRUE /\ cnow = 0 /\ clines = 0 /\ ctokens = << >>
    /\ cstatus = None
    /\ cfr = SendRequestEnter(0, UuidTrace(0), 0, 0)
    /\ epc = "idle" /\ etimeout = 0 /\ enow = 0 /\ estart = 0 /\ edata = EmptyDict
    /\ emetrics = RequestMetrics(0, UuidTrace(0), FALSE, "", None)
    /\ eret = None /\ ereplies = << >>
    /\ ppc = "idle" /\ pnow = 0 /\ precords = << >> /\ pstore = << >> /\ punits = << >>
    /\ spc = "idle" /\ srecords = << >> /\ sstart = 0 /\ send = 0 /\ ssummaries = << >>
    /\ dpc = "idle" /\ drecord = RequestMetrics(0, UuidTrace(0), FALSE, "", None) /\ ddict = << >>

\* lines 94-100: the header is printed, with len(prompts) / self.rps, which
\* raises ZeroDivisionError when rps is 0; then start_time and the branch
RunBenchmarkBegin ==
    /\ pc = "begin"
    /\ IF rps = 0
       THEN pc' = "error" /\ start_time' = start_time
       ELSE /\ start_time' = Some(now)
            /\ pc' = IF rps <= 0 THEN "unlimited" ELSE "schedule"
    /\ UNCHANGED <<rps, nprompts, now, end_time, tasks, doneq, completed, gresults,
                   results, heap, etasks, writers, reports, clientVars, enrichVars, passVars, summaryVars, dictVars>>

\* lines 114-129: one turn of the loop that creates the delayed units; after
\* the last one _gather_with_progress is called
CreateTask ==
    /\ pc = "schedule"
    /\ Len(tasks) < nprompts
    /\ tasks' = Append(tasks, NewTask(Delay(Len(tasks), Interval(rps))))
    /\ pc' = IF Len(tasks') = nprompts THEN "gather" ELSE "schedule"
    /\ UNCHANGED <<rps, nprompts, now, start_time, end_time, doneq, completed, gresults,
                   results, heap, etasks, writers, reports, clientVars, enrichVars, passVars, summaryVars, dictVars>>

\* lines 102-107: the coroutines of all prompts are handed to asyncio.gather
UnlimitedLaunch ==
    /\ pc = "unlimited"
    /\ tasks' = [i \in 1..nprompts |-> NewTask(0)]
    /\ pc' = "unl_gather"
    /\ UNCHANGED <<rps, nprompts, now, start_time, end_time, doneq, completed, gresults,
                   results, heap, etasks, writers, reports, clientVars, enrichVars, passVars, summaryVars, dictVars>>

\* lines 177-189 and 204-214: unit i calls send_request, which creates its
\* RequestMetrics and sends the request
BeginRequest(i) ==
    LET ref == Len(heap) + 1 IN
    /\ heap' = Append(heap,
                      SendRequestEnter(UuidRequest(ref), UuidTrace(ref), now, now).metrics)
    /\ writers' = Append(writers, {<<"request", i>>})
    /\ tasks' = [tasks EXCEPT ![i].state = "inflight", ![i].started = Some(now),
                              ![i].obj = ref]

\* a unit runs for the first time, after the units created before it (the
\* loop's ready queue is first in, first out): line 174 suspends it for its
\* delay; in the unlimited path it is _send_single_request itself
TaskStart(i) ==
    /\ pc \in Awaiting
    /\ tasks[i].state = "created"
    /\ \A k \in 1..(i - 1) : tasks[k].state # "created"
    /\ IF rps > 0
       THEN /\ tasks' = [tasks EXCEPT ![i].state = "sleeping",
                                      ![i].wake = Some(now + tasks[i].delay)]
            /\ UNCHANGED <<heap, writers>>
       ELSE BeginRequest(i)
    /\ UNCHANGED <<rps, nprompts, pc, now, start_time, end_time, doneq, completed,
                   gresults, results, etasks, reports, clientVars, enrichVars, passVars, summaryVars, dictVars>>

\* line 175: the sleep of unit i is over
TaskWake(i) ==
    /\ pc \in Awaiting
    /\ tasks[i].state = "sleeping"
    /\ Val(tasks[i].wake) <= now
    /\ BeginRequest(i)
    /\ UNCHANGED <<rps, nprompts, pc, now, start_time, end_time, doneq, completed,
                   gresults, results, etasks, reports, clientVars, enrichVars, passVars, summaryVars, dictVars>>

\* lines 184-202: the request of unit i ends and the unit settles
TaskSettle(i) ==
    /\ pc \in Awaiting
    /\ tasks[i].state = "inflight"
    /\ \E resp \in RunResponses :
        /\ Duration(resp) = now - Val(tasks[i].started)
        /\ CASE resp.outcome = "reply" ->
                  LET ref == tasks[i].obj
                      fr == SendRequestEnter(heap[ref].request_id, heap[ref].trace_id,
                                             Val(tasks[i].started), Val(tasks[i].started))
                  IN  /\ heap' = [heap EXCEPT ![ref] = SendRequest(fr, resp).metrics]
                      /\ writers' = writers
                      /\ tasks' = [tasks EXCEPT ![i].state = "returned", ![i].result = ref]
             [] resp.outcome = "client_raises" ->
                  LET ref == Len(heap) + 1 IN
                      /\ heap' = Append(heap, RequestMetrics(IndexRequest(i - 1), FailedTrace,
                                                             FALSE, resp.msg, None))
                      /\ writers' = Append(writers, {<<"request", i>>})
                      /\ tasks' = [tasks EXCEPT ![i].state = "returned", ![i].result = ref]
             [] resp.outcome = "handler_raises" ->
                      /\ tasks' = [tasks EXCEPT ![i].state = "raised"]
                      /\ UNCHANGED <<heap, writers>>
    /\ doneq' = IF rps > 0 THEN Append(doneq, i) ELSE doneq
    /\ UNCHANGED <<rps, nprompts, pc, now, start_time, end_time, completed,
                   gresults, results, etasks, reports, clientVars, enrichVars, passVars, summaryVars, dictVars>>

\* line 159: a progress line is printed at every 50th completion
ProgressEvery == 50

\* lines 159-163: the progress line, if one is due, after a record was taken;
\* it carries the counts of completed units and of successful records
ProgressAfter(printed, count, total, collected, h) ==
    IF count % ProgressEvery = 0 \/ count = total
    THEN Append(printed,
                [completed |-> count,
                 successful |-> Cardinality({k \in 1..Len(collected) : h[collected[k]].success})])
    ELSE printed

\* a mutant: an exception of a unit is not caught and ends run_benchmark
GatherNextNoCatch ==
    /\ pc = "gather"
    /\ doneq # << >>
    /\ IF tasks[Head(doneq)].state = "returned"
       THEN /\ gresults' = Append(gresults, tasks[Head(doneq)].result)
            /\ pc' = pc
       ELSE /\ gresults' = gresults
            /\ pc' = "error"
    /\ reports' = IF tasks[Head(doneq)].state = "returned"
                  THEN ProgressAfter(reports, completed + 1, nprompts, gresults', heap)
                  ELSE reports
    /\ completed' = completed + 1
    /\ doneq' = Tail(doneq)
    /\ UNCHANGED <<rps, nprompts, now, start_time, end_time, tasks,
                   results, heap, etasks, writers, clientVars, enrichVars, passVars, summaryVars, dictVars>>

\* a mutant: only the records of successful requests are kept
GatherNextDropsFailed ==
    /\ pc = "gather"
    /\ doneq # << >>
    /\ gresults' = IF tasks[Head(doneq)].state = "returned"
                      /\ heap[tasks[Head(doneq)].result].success
                   THEN Append(gresults, tasks[Head(doneq)].result)
                   ELSE gresults
    /\ reports' = IF tasks[Head(doneq)].state = "returned"
                  THEN ProgressAfter(reports, completed + 1, nprompts, gresults', heap)
                  ELSE reports
    /\ completed' = completed + 1
    /\ doneq' = Tail(doneq)
    /\ UNCHANGED <<rps, nprompts, pc, now, start_time, end_time, tasks,
                   results, heap, etasks, writers, clientVars, enrichVars, passVars, summaryVars, dictVars>>

\* lines 151-167: asyncio.as_completed hands out the next settled unit; its
\* record is appended, its exception is caught; completed counts both; the
\* progress line is printed in the branch of a returned unit only
GatherNext ==
    /\ pc = "gather"
    /\ doneq # << >>
    /\ gresults' = IF tasks[Head(doneq)].state = "returned"
                   THEN Append(gresults, tasks[Head(doneq)].result)
                   ELSE gresults
    /\ reports' = IF tasks[Head(doneq)].state = "returned"
                  THEN ProgressAfter(reports, completed + 1, nprompts, gresults', heap)
                  ELSE reports
    /\ completed' = completed + 1
    /\ doneq' = Tail(doneq)
    /\ UNCHANGED <<rps, nprompts, pc, now, start_time, end_time, tasks,
                   results, heap, etasks, writers, clientVars, enrichVars, passVars, summaryVars, dictVars>>

\* a mutant: the loop is left at the first completion
GatherReturnEarly ==
    /\ pc = "gather"
    /\ completed >= 1
    /\ results' = gresults
    /\ end_time' = Some(now)
    /\ pc' = "collect"
    /\ UNCHANGED <<rps, nprompts, now, start_time, tasks, doneq, completed, gresults,
                   heap, etasks, writers, reports, clientVars, enrichVars, passVars, summaryVars, dictVars>>

\* lines 151, 169 and 129-137: every unit has been handed out, the loop
\* ends; self.results, then end_time
GatherReturn ==
    /\ pc = "gather"
    /\ completed = Len(tasks)
    /\ results' = gresults
    /\ end_time' = Some(now)
    /\ pc' = "collect"
    /\ UNCHANGED <<rps, nprompts, now, start_time, tasks, doneq, completed, gresults,
                   heap, etasks, writers, reports, clientVars, enrichVars, passVars, summaryVars, dictVars>>

\* line 107: what asyncio.gather(..., return_exceptions=True) returns, in
\* submission order: a record's reference, or 0 for an exception
GatherOutcomes(ts) ==
    [i \in 1..Len(ts) |-> IF ts[i].state = "returned" THEN ts[i].result ELSE 0]

\* lines 109 and 131: [r for r in results if isinstance(r, RequestMetrics)]
FilterRecords(outcomes) == SelectSeq(outcomes, LAMBDA r : r # 0)

\* lines 107-109 and 137: every unit has settled
UnlimitedGatherReturn ==
    /\ pc = "unl_gather"
    /\ \A i \in 1..Len(tasks) : Settled(tasks[i])
    /\ results' = FilterRecords(GatherOutcomes(tasks))
    /\ end_time' = Some(now)
    /\ pc' = "collect"
    /\ UNCHANGED <<rps, nprompts, now, start_time, tasks, doneq, completed, gresults,
                   heap, etasks, writers, reports, clientVars, enrichVars, passVars, summaryVars, dictVars>>

\* a mutant: every record is enriched
SuccessfulResultsAll(rs, h) == rs

\* line 206: [r for r in self.results if r.success]
SuccessfulResults(rs, h) == SelectSeq(rs, LAMBDA r : h[r].success)

\* lines 139-141 and 206-223: the enrichment units are created, one for each
\* successful record; without any, _collect_server_metrics returns at once
CollectServerMetrics ==
    /\ pc = "collect"
    /\ LET successful_results == SuccessfulResults(results, heap) IN
        IF successful_results = << >>
        THEN /\ pc' = "returned"
             /\ etasks' = etasks
        ELSE /\ pc' = "enrich_wait"
             /\ etasks' = [j \in 1..Len(successful_results) |->
                            [obj |-> successful_results[j], state |-> "created",
                             ret |-> None]]
    /\ UNCHANGED <<rps, nprompts, now, start_time, end_time, tasks, doneq, completed,
                   gresults, results, heap, writers, reports, clientVars, enrichVars, passVars, summaryVars, dictVars>>

\* lines 225-235: enrichment unit j, run after the units created before it,
\* hands its call to the executor
EnrichTaskStart(j) ==
    /\ pc \in Awaiting
    /\ etasks[j].state = "created"
    /\ \A k \in 1..(j - 1) : etasks[k].state # "created"
    /\ etasks' = [etasks EXCEPT ![j].state = "running"]
    /\ UNCHANGED <<rps, nprompts, pc, now, start_time, end_time, tasks, doneq, completed,
                   gresults, results, heap, writers, reports, clientVars, enrichVars, passVars, summaryVars, dictVars>>

\* lines 230-235 with lines 378-412 in the executor's thread: the call of
\* enrich_with_server_metrics of unit j ends
EnrichTaskDone(j) ==
    /\ pc \in Awaiting
    /\ etasks[j].state = "running"
    /\ \E server_data \in RunServerData :
        LET r == EnrichFinish(heap[etasks[j].obj], server_data) IN
        /\ heap' = [heap EXCEPT ![etasks[j].obj] = r.metrics]
        /\ etasks' = [etasks EXCEPT ![j].state = "done", ![j].ret = Some(r.ret)]
    /\ writers' = [writers EXCEPT ![etasks[j].obj] = @ \cup {<<"enrich", j>>}]
    /\ UNCHANGED <<rps, nprompts, pc, now, start_time, end_time, tasks, doneq, completed,
                   gresults, results, reports, clientVars, enrichVars, passVars, summaryVars, dictVars>>

\* a mutant: end_time is taken after the enrichment pass
RunBenchmarkReturnStampsEnd ==
    /\ pc = "enrich_wait"
    /\ \A j \in 1..Len(etasks) : etasks[j].state = "done"
    /\ end_time' = Some(now)
    /\ pc' = "returned"
    /\ UNCHANGED <<rps, nprompts, now, start_time, tasks, doneq, completed,
                   gresults, results, heap, etasks, writers, reports, clientVars, enrichVars, passVars, summaryVars, dictVars>>

\* lines 223 and 143: every enrichment unit has settled; run_benchmark returns
RunBenchmarkReturn ==
    /\ pc = "enrich_wait"
    /\ \A j \in 1..Len(etasks) : etasks[j].state = "done"
    /\ pc' = "returned"
    /\ UNCHANGED <<rps, nprompts, now, start_time, end_time, tasks, doneq, completed,
                   gresults, results, heap, etasks, writers, reports, clientVars, enrichVars, passVars, summaryVars, dictVars>>

\* the clock advances while the loop waits for a sleep or a response
Tick ==
    /\ pc \in {"gather", "unl_gather"}
    /\ doneq = << >>
    /\ \E i \in 1..Len(tasks) : ~Settled(tasks[i])
    /\ \A i \in 1..Len(tasks) :
        /\ tasks[i].state # "created"
        /\ tasks[i].state = "sleeping" => now < Val(tasks[i].wake)
        /\ tasks[i].state = "inflight" => now - Val(tasks[i].started) < MaxDuration
    /\ now' = now + 1
    /\ UNCHANGED <<rps, nprompts, pc, start_time, end_time, tasks, doneq, completed,
                   gresults, results, heap, etasks, writers, reports, clientVars, enrichVars, passVars, summaryVars, dictVars>>

\* lines 223 and 230-235: the clock advances while run_benchmark waits for
\* the calls of enrich_with_server_metrics that run in the executor
EnrichTick ==
    /\ pc = "enrich_wait"
    /\ \A j \in 1..Len(etasks) : etasks[j].state # "created"
    /\ \E j \in 1..Len(etasks) : etasks[j].state = "running"
    /\ now < Val(end_time) + MaxEnrichTicks
    /\ now' = now + 1
    /\ UNCHANGED <<rps, nprompts, pc, start_time, end_time, tasks, doneq, completed,
                   gresults, results, heap, etasks, writers, reports, clientVars, enrichVars, passVars, summaryVars, dictVars>>

Next ==
    \/ RunBenchmarkBegin
    \/ CreateTask
    \/ UnlimitedLaunch
    \/ \E i \in 1..Len(tasks) : TaskStart(i)
    \/ \E i \in 1..Len(tasks) : TaskWake(i)
    \/ \E i \in 1..Len(tasks) : TaskSettle(i)
    \/ GatherNext
    \/ GatherReturn
    \/ UnlimitedGatherReturn
    \/ CollectServerMetrics
    \/ \E j \in 1..Len(etasks) : EnrichTaskStart(j)
    \/ \E j \in 1..Len(etasks) : EnrichTaskDone(j)
    \/ RunBenchmarkReturn
    \/ Tick
    \/ EnrichTick

Spec == RunInit /\ [][Next]_vars

\* the event loop runs every unit that is ready, the executor every call
\* handed to it, and every request and every poll ends (the transport's and
\* the poll loop's timeouts)
FairSpec == RunInit /\ [][Next]_vars /\ WF_vars(Next)

-----------------------------------------------------------------------------
(* CancelSpec: a run that the operator may interrupt.  asyncio.run (line   *)
(* 338) answers the interrupt by cancelling main, suspended in one of the  *)
(* awaits of run_benchmark, and every unit that has not ended:             *)
(* CancelledError is no Exception, so neither the handlers of              *)
(* send_request and _send_single_request nor those of _gather_with_progress *)
(* and main (lines 329-334) catch it, and run_benchmark returns nothing.   *)
(* A call of enrich_with_server_metrics that runs in a worker's thread     *)
(* goes on to its end.                                                     *)

\* a mutant: the units that sleep are left alone
CancelKeepsSleepers ==
    /\ pc \in {"gather", "unl_gather", "enrich_wait"}
    /\ pc' = "cancelled"
    /\ tasks' = [i \in 1..Len(tasks) |->
                    IF tasks[i].state \in {"created", "inflight"}
                    THEN [tasks[i] EXCEPT !.state = "cancelled"]
                    ELSE tasks[i]]
    /\ etasks' = [j \in 1..Len(etasks) |->
                    IF etasks[j].state = "created"
                    THEN [etasks[j] EXCEPT !.state = "cancelled"]
                    ELSE etasks[j]]
    /\ UNCHANGED <<rps, nprompts, now, start_time, end_time, doneq, completed, gresults,
                   results, heap, writers, reports, clientVars, enrichVars, passVars, summaryVars, dictVars>>

\* lines 307-311 and 338: the interrupt ends run_benchmark at its await and
\* every unit that has not settled at its own
Cancel ==
    /\ pc \in {"gather", "unl_gather", "enrich_wait"}
    /\ pc' = "cancelled"
    /\ tasks' = [i \in 1..Len(tasks) |->
                    IF Settled(tasks[i])
                    THEN tasks[i]
                    ELSE [tasks[i] EXCEPT !.state = "cancelled"]]
    /\ etasks' = [j \in 1..Len(etasks) |->
                    IF etasks[j].state = "created"
                    THEN [etasks[j] EXCEPT !.state = "cancelled"]
                    ELSE etasks[j]]
    /\ UNCHANGED <<rps, nprompts, now, start_time, end_time, doneq, completed, gresults,
                   results, heap, writers, reports, clientVars, enrichVars, passVars, summaryVars, dictVars>>

CancelNext ==
    \/ Next
    \/ Cancel

CancelSpec == RunInit /\ [][CancelNext]_vars

\* line 307: what main receives from run_benchmark
MainResults == IF pc = "returned" THEN results ELSE << >>

-----------------------------------------------------------------------------
(* PassSpec: one enrichment pass, _collect_server_metrics, with its clock. *)
(*                                                                         *)
(* Each unit hands its call of enrich_with_server_metrics to the loop's    *)
(* default executor; the calls run in the executor's threads, at the same  *)
(* time, and a call waits in the executor's queue while every worker is    *)
(* busy.  A GET takes no time in the model, the pause between two polls    *)
(* one tick.  The trace store serves the trace of a record from some tick  *)
(* on, or never.                                                           *)

\* most records of a pass
MaxUnits == 3

\* the workers of the executor of line 230 (the loop's default thread pool)
Workers == 2

\* line 234: the timeout every unit passes to enrich_with_server_metrics
PassTimeout == MaxTimeout

\* the ticks from which the store serves a trace
StoreFrom == {None, Some(0), Some(MaxTimeout)}

\* the trace of a record, as the store serves it
StoredTrace == << <<SpanOf("llm_request", AllTags(Num(3)), TRUE)>> >>

\* request k of the run before the pass: successful, or refused
PassRecord(k, ok) ==
    IF ok
    THEN MarkSuccess(StreamFinish(OnToken(OnToken(
             SendRequestEnter(k, UuidTrace(k), 0, 0), 1), 2), 3)).metrics
    ELSE HttpStatusError(SendRequestEnter(k, UuidTrace(k), 0, 0), 500).metrics

\* line 217: a unit as create_task makes it
NewUnit(obj) ==
    [obj |-> obj, state |-> "created", start |-> None, next |-> 0,
     lastpoll |-> None, ended |-> None, ret |-> None]

UnitIds == 1..Len(punits)

\* a mutant: the timeout is counted from the start of the pass
ElapsedSincePass(unit, t) == t

\* line 381: time.time() - start_time
Elapsed(unit, t) == t - Val(unit.start)

\* line 383: the reply of the store to the GET of a record's trace at tick t
StoreReply(entry, t) ==
    IF entry # None /\ Val(entry) <= t
    THEN ReplyOf("ok", StoredTrace)
    ELSE ReplyOf("status404", << >>)

\* lines 384-386: what the store's trace is extracted to
StoredData == ExtractServerMetricsFromTrace(StoredTrace)

\* lines 383-386 and 389-390: server_data after one GET at tick t
PollOnce(entry, t) ==
    IF StoreReply(entry, t).kind = "ok" THEN StoredData ELSE EmptyDict

PassInit ==
    /\ ppc = "collect"
    /\ pnow = 0
    /\ \E n \in 1..MaxUnits :
        /\ \E oks \in [1..n -> BOOLEAN] : precords = [k \in 1..n |-> PassRecord(k, oks[k])]
        /\ pstore \in [1..n -> StoreFrom]
    /\ \A k \in 1..Len(precords) : ~precords[k].success => pstore[k] = None
    /\ punits = << >>
    \* no separate call of send_request or enrich_with_server_metrics, no run
    /\ cpc = "idle" /\ cstream = TRUE /\ cnow = 0 /\ clines = 0 /\ ctokens = << >>
    /\ cstatus = None
    /\ cfr = SendRequestEnter(0, UuidTrace(0), 0, 0)
    /\ epc = "idle" /\ etimeout = 0 /\ enow = 0 /\ estart = 0 /\ edata = EmptyDict
    /\ emetrics = RequestMetrics(0, UuidTrace(0), FALSE, "", None)
    /\ eret = None /\ ereplies = << >>
    /\ rps = 0 /\ nprompts = 0 /\ pc = "idle" /\ now = 0
    /\ start_time = None /\ end_time = None
    /\ tasks = << >> /\ doneq = << >> /\ completed = 0 /\ gresults = << >>
    /\ results = << >> /\ heap = << >> /\ etasks = << >> /\ writers = << >>
    /\ reports = << >>
    /\ spc = "idle" /\ srecords = << >> /\ sstart = 0 /\ send = 0 /\ ssummaries = << >>
    /\ dpc = "idle" /\ drecord = RequestMetrics(0, UuidTrace(0), FALSE, "", None) /\ ddict = << >>

\* lines 206-223: one unit for each successful record, then the gather;
\* without any successful record the pass returns at once
PassCollect ==
    /\ ppc = "collect"
    /\ LET successful_results ==
               SuccessfulResults([k \in 1..Len(precords) |-> k], precords) IN
        IF successful_results = << >>
        THEN ppc' = "returned" /\ punits' = punits
        ELSE /\ ppc' = "wait"
             /\ punits' = [j \in 1..Len(successful_results) |-> NewUnit(successful_results[j])]
    /\ UNCHANGED <<pnow, precords, pstore, clientVars, enrichVars, runVars, summaryVars, dictVars>>

\* lines 227-235: unit j runs on the loop, after the units created before
\* it, and hands its call to the executor
PassUnitStart(j) ==
    /\ ppc = "wait"
    /\ punits[j].state = "created"
    /\ \A k \in 1..(j - 1) : punits[k].state # "created"
    /\ punits' = [punits EXCEPT ![j].state = "queued"]
    /\ UNCHANGED <<ppc, pnow, precords, pstore, clientVars, enrichVars, runVars, summaryVars, dictVars>>

\* lines 230 and 236-237: run_in_executor raises (no thread can be started);
\* the unit catches the exception and ends
PassUnitRaises(j) ==
    /\ ppc = "wait"
    /\ punits[j].state = "created"
    /\ \A k \in 1..(j - 1) : punits[k].state # "created"
    /\ punits' = [punits EXCEPT ![j].state = "done", ![j].ended = Some(pnow)]
    /\ UNCHANGED <<ppc, pnow, precords, pstore, clientVars, enrichVars, runVars, summaryVars, dictVars>>

\* lines 378-379: a free worker takes the call that waited longest
PassWorkerRun(j) ==
    /\ ppc = "wait"
    /\ punits[j].state = "queued"
    /\ \A k \in 1..(j - 1) : punits[k].state # "queued"
    /\ Cardinality({k \in UnitIds : punits[k].state = "running"}) < Workers
    /\ punits' = [punits EXCEPT ![j].state = "running", ![j].start = Some(pnow),
                                ![j].next = pnow]
    /\ UNCHANGED <<ppc, pnow, precords, pstore, clientVars, enrichVars, runVars, summaryVars, dictVars>>

\* lines 381-392 and 397-412: the loop's test holds; one GET; with data the
\* record is written and the call returns True, without the call sleeps
PassPoll(j) ==
    /\ punits[j].state = "running"
    /\ punits[j].next <= pnow
    /\ Elapsed(punits[j], pnow) < PassTimeout
    /\ LET server_data == PollOnce(pstore[punits[j].obj], pnow)
           r == EnrichFinish(precords[punits[j].obj], server_data)
       IN  IF Truthy(server_data)
           THEN /\ precords' = [precords EXCEPT ![punits[j].obj] = r.metrics]
                /\ punits' = [punits EXCEPT ![j].state = "done", ![j].lastpoll = Some(pnow),
                                            ![j].ended = Some(pnow), ![j].ret = Some(r.ret)]
           ELSE /\ precords' = precords
                /\ punits' = [punits EXCEPT ![j].lastpoll = Some(pnow),
                                            ![j].next = pnow + PollSleep]
    /\ UNCHANGED <<ppc, pnow, pstore, clientVars, enrichVars, runVars, summaryVars, dictVars>>

\* lines 381 and 394-395: the loop's test fails; the call returns False
PassGiveUp(j) ==
    /\ punits[j].state = "running"
    /\ punits[j].next <= pnow
    /\ ~(Elapsed(punits[j], pnow) < PassTimeout)
    /\ LET r == EnrichFinish(precords[punits[j].obj], EmptyDict) IN
        /\ precords' = [precords EXCEPT ![punits[j].obj] = r.metrics]
        /\ punits' = [punits EXCEPT ![j].state = "done", ![j].ended = Some(pnow),
                                    ![j].ret = Some(r.ret)]
    /\ UNCHANGED <<ppc, pnow, pstore, clientVars, enrichVars, runVars, summaryVars, dictVars>>

\* line 223: the gather returns when every unit has settled
PassReturn ==
    /\ ppc = "wait"
    /\ \A j \in UnitIds : punits[j].state = "done"
    /\ ppc' = "returned"
    /\ UNCHANGED <<pnow, precords, pstore, punits, clientVars, enrichVars, runVars, summaryVars, dictVars>>

\* the clock advances while every call sleeps or waits for a worker
PassTick ==
    /\ ppc = "wait"
    /\ \E j \in UnitIds : punits[j].state # "done"
    /\ \A j \in UnitIds :
        /\ punits[j].state # "created"
        /\ punits[j].state = "running" => pnow < punits[j].next
        /\ punits[j].state = "queued"
              => Cardinality({k \in UnitIds : punits[k].state = "running"}) >= Workers
    /\ pnow' = pnow + 1
    /\ UNCHANGED <<ppc, precords, pstore, punits, clientVars, enrichVars, runVars, summaryVars, dictVars>>

PassNext ==
    \/ PassCollect
    \/ \E j \in UnitIds : PassUnitStart(j)
    \/ \E j \in UnitIds : PassUnitRaises(j)
    \/ \E j \in UnitIds : PassWorkerRun(j)
    \/ \E j \in UnitIds : PassPoll(j)
    \/ \E j \in UnitIds : PassGiveUp(j)
    \/ PassReturn
    \/ PassTick

PassSpec == PassInit /\ [][PassNext]_vars

\* the loop runs every unit that is ready and the executor every call handed
\* to it; every GET ends
FairPassSpec == PassInit /\ [][PassNext]_vars /\ WF_vars(PassNext)

-----------------------------------------------------------------------------
(* calculate_benchmark_summary.  A float the code computes by a division   *)
(* is kept as the exact fraction num / den; den = 0 stands for the         *)
(* ZeroDivisionError of a division by zero.  Durations are in ticks, so a  *)
(* rate per second over d ticks is n / (d / 2).                            *)

Rat(num, den) == [num |-> num, den |-> den]

\* 0.0
Zero == Rat(0, 1)

\* n / duration, duration in ticks
PerSecond(n, duration) == Rat(2 * n, duration)

\* lines 540-579: BenchmarkSummary() with the defaults of its fields
BenchmarkSummary ==
    [total_requests |-> 0,
     successful_requests |-> 0,
     failed_requests |-> 0,
     benchmark_duration |-> 0,
     total_input_tokens |-> 0,
     total_output_tokens |-> 0,
     request_throughput |-> Zero,
     output_token_throughput |-> Zero,
     total_token_throughput |-> Zero,
     ttft_values |-> << >>, mean_ttft |-> Zero, median_ttft |-> Zero, p99_ttft |-> Zero,
     tpot_values |-> << >>, mean_tpot |-> Zero, median_tpot |-> Zero, p99_tpot |-> Zero,
     itl_values |-> << >>, mean_itl |-> Zero, median_itl |-> Zero, p99_itl |-> Zero,
     queue_time_values |-> << >>, mean_queue_time |-> Zero,
     median_queue_time |-> Zero, p99_queue_time |-> Zero]

\* a mutant: every record is counted as successful
CountSuccessfulAll(rs) == Len(rs)

\* line 588: sum(1 for r in results if r.success)
CountSuccessful(rs) == Cardinality({k \in 1..Len(rs) : rs[k].success})

\* line 593: [r for r in results if r.success]
SuccessfulOnly(rs) == SelectSeq(rs, LAMBDA r : r.success)

\* lines 599-600: value or 0
OrZero(value) == IF value # None /\ Val(value) # 0 THEN Val(value) ELSE 0

\* lines 599-600: sum(r.<field> or 0 for r in successful_results)
RECURSIVE SumTokens(_, _)
SumTokens(rs, field) ==
    IF rs = << >> THEN 0 ELSE OrZero(Head(rs)[field]) + SumTokens(Tail(rs), field)

\* lines 616-619: the TTFT of the client, else that of the server, else none
RECURSIVE TtftValues(_)
TtftValues(rs) ==
    IF rs = << >> THEN << >>
    ELSE (IF Head(rs).client_ttft # None THEN <<Val(Head(rs).client_ttft)>>
          ELSE IF Head(rs).server_ttft # None THEN <<Val(Head(rs).server_ttft)>>
          ELSE << >>) \o TtftValues(Tail(rs))

\* lines 622-623 and 630-631: the values of an Optional field that are set
RECURSIVE SetValues(_, _)
SetValues(rs, field) ==
    IF rs = << >> THEN << >>
    ELSE (IF Head(rs)[field] # None THEN <<Val(Head(rs)[field])>> ELSE << >>)
         \o SetValues(Tail(rs), field)

\* lines 626-627: every gap of every record, times 1000
RECURSIVE ItlValues(_)
ItlValues(rs) ==
    IF rs = << >> THEN << >>
    ELSE [k \in 1..Len(Head(rs).client_itl_list) |-> Ms(Head(rs).client_itl_list[k])]
         \o ItlValues(Tail(rs))

\* the values in ascending order, as np.median and np.percentile see them
RECURSIVE Insert(_, _)
Insert(v, sorted) ==
    IF sorted = << >> THEN <<v>>
    ELSE IF v <= Head(sorted) THEN <<v>> \o sorted
    ELSE <<Head(sorted)>> \o Insert(v, Tail(sorted))

RECURSIVE Ascending(_)
Ascending(values) == IF values = << >> THEN << >> ELSE Insert(Head(values), Ascending(Tail(values)))

\* np.mean
Mean(values) == Rat(SumSeq(values), Len(values))

\* a mutant: the middle of the values as they come, without ordering them
MedianInListOrder(values) ==
    LET n == Len(values)
    IN  IF n % 2 = 1 THEN Rat(values[(n + 1) \div 2], 1)
        ELSE Rat(values[n \div 2] + values[n \div 2 + 1], 2)

\* np.median: the middle value, or the mean of the two middle values
Median(values) ==
    LET sorted == Ascending(values)
        n == Len(values)
    IN  IF n % 2 = 1 THEN Rat(sorted[(n + 1) \div 2], 1)
        ELSE Rat(sorted[n \div 2] + sorted[n \div 2 + 1], 2)

\* np.percentile(arr, 99): linear interpolation at the rank 0.99 * (n - 1)
Percentile99(values) ==
    LET sorted == Ascending(values)
        rank == 99 * (Len(values) - 1)
        lo == rank \div 100 + 1
        part == rank % 100
    IN  IF part = 0 THEN Rat(100 * sorted[lo], 100)
        ELSE Rat(100 * sorted[lo] + part * (sorted[lo + 1] - sorted[lo]), 100)

\* lines 634-638
CalculateStats(values) ==
    IF values = << >>
    THEN [mean |-> Zero, median |-> Zero, p99 |-> Zero]
    ELSE [mean |-> Mean(values), median |-> Median(values), p99 |-> Percentile99(values)]

\* a mutant: the throughputs are computed whatever the duration
ThroughputsUnguarded(summary) ==
    [summary EXCEPT
        !.request_throughput = PerSecond(summary.successful_requests,
                                         summary.benchmark_duration),
        !.output_token_throughput = PerSecond(summary.total_output_tokens,
                                              summary.benchmark_duration),
        !.total_token_throughput =
            PerSecond(summary.total_input_tokens + summary.total_output_tokens,
                      summary.benchmark_duration)]

\* lines 603-606
Throughputs(summary) ==
    IF summary.benchmark_duration > 0
    THEN [summary EXCEPT
            !.request_throughput = PerSecond(summary.successful_requests,
                                             summary.benchmark_duration),
            !.output_token_throughput = PerSecond(summary.total_output_tokens,
                                                  summary.benchmark_duration),
            !.total_token_throughput =
                PerSecond(summary.total_input_tokens + summary.total_output_tokens,
                          summary.benchmark_duration)]
    ELSE summary

\* a mutant: the token counts of every record are added
TokenTotalsOfAll(summary, rs, successful_results) ==
    [summary EXCEPT !.total_input_tokens = SumTokens(rs, "prompt_tokens"),
                    !.total_output_tokens = SumTokens(rs, "completion_tokens")]

\* lines 599-600
TokenTotals(summary, rs, successful_results) ==
    [summary EXCEPT !.total_input_tokens = SumTokens(successful_results, "prompt_tokens"),
                    !.total_output_tokens = SumTokens(successful_results, "completion_tokens")]

\* lines 587-590
BasicCounts(rs, start, end) ==
    [BenchmarkSummary EXCEPT
        !.total_requests = Len(rs),
        !.successful_requests = CountSuccessful(rs),
        !.failed_requests = Len(rs) - CountSuccessful(rs),
        !.benchmark_duration = end - start]

\* a mutant: the ITL dimension takes one value for each record, the mean of
\* its gaps
LatencyStatsItlOfRecords(summary, successful_results) ==
    LET ttft == TtftValues(successful_results)
        tpot == SetValues(successful_results, "client_tpot")
        itl == SetValues(successful_results, "client_itl")
        queue == SetValues(successful_results, "server_queue_time")
    IN  [summary EXCEPT
            !.ttft_values = ttft,
            !.mean_ttft = CalculateStats(ttft).mean,
            !.median_ttft = CalculateStats(ttft).median,
            !.p99_ttft = CalculateStats(ttft).p99,
            !.tpot_values = tpot,
            !.mean_tpot = CalculateStats(tpot).mean,
            !.median_tpot = CalculateStats(tpot).median,
            !.p99_tpot = CalculateStats(tpot).p99,
            !.itl_values = itl,
            !.mean_itl = CalculateStats(itl).mean,
            !.median_itl = CalculateStats(itl).median,
            !.p99_itl = CalculateStats(itl).p99,
            !.queue_time_values = queue,
            !.mean_queue_time = CalculateStats(queue).mean,
            !.median_queue_time = CalculateStats(queue).median,
            !.p99_queue_time = CalculateStats(queue).p99]

\* lines 609-654
LatencyStats(summary, successful_results) ==
    LET ttft == TtftValues(successful_results)
        tpot == SetValues(successful_results, "client_tpot")
        itl == ItlValues(successful_results)
        queue == SetValues(successful_results, "server_queue_time")
    IN  [summary EXCEPT
            !.ttft_values = ttft,
            !.mean_ttft = CalculateStats(ttft).mean,
            !.median_ttft = CalculateStats(ttft).median,
            !.p99_ttft = CalculateStats(ttft).p99,
            !.tpot_values = tpot,
            !.mean_tpot = CalculateStats(tpot).mean,
            !.median_tpot = CalculateStats(tpot).median,
            !.p99_tpot = CalculateStats(tpot).p99,
            !.itl_values = itl,
            !.mean_itl = CalculateStats(itl).mean,
            !.median_itl = CalculateStats(itl).median,
            !.p99_itl = CalculateStats(itl).p99,
            !.queue_time_values = queue,
            !.mean_queue_time = CalculateStats(queue).mean,
            !.median_queue_time = CalculateStats(queue).median,
            !.p99_queue_time = CalculateStats(queue).p99]

\* a mutant: without a successful record the counts are left at their defaults
CalculateBenchmarkSummaryBare(rs, start, end) ==
    LET successful_results == SuccessfulOnly(rs) IN
    IF successful_results = << >>
    THEN BenchmarkSummary
    ELSE LatencyStats(Throughputs(TokenTotals(BasicCounts(rs, start, end),
                                              rs, successful_results)),
                      successful_results)

\* lines 582-656
CalculateBenchmarkSummary(rs, start, end) ==
    LET successful_results == SuccessfulOnly(rs) IN
    IF successful_results = << >>
    THEN BasicCounts(rs, start, end)
    ELSE LatencyStats(Throughputs(TokenTotals(BasicCounts(rs, start, end),
                                              rs, successful_results)),
                      successful_results)

-----------------------------------------------------------------------------
(* SummarySpec: calls of calculate_benchmark_summary on one record list    *)
(* and one pair of times.  The records are those the client and the        *)
(* enrichment produce.                                                     *)

\* most records of a list
MaxRecords == 3
\* most calls on one list
MaxCalls == 2

\* the attributes of a server span with the given token counts and queue time
SpanTags(prompt, completion, queue) ==
    [k \in LatencyTags \cup OtherTags |->
        IF k = "gen_ai.usage.prompt_tokens" THEN Num(prompt)
        ELSE IF k = "gen_ai.usage.completion_tokens" THEN Num(completion)
        ELSE IF k = "gen_ai.latency.time_in_queue" THEN Num(queue)
        ELSE Num(1)]

\* a streamed request that succeeded, tokens at the ticks t1 and t2
StreamedAt(t1, t2) ==
    MarkSuccess(StreamFinish(OnToken(OnToken(
        SendRequestEnter(1, UuidTrace(1), 0, 0), t1), t2), t2 + 1)).metrics

\* the frame of a stream whose first token came at the tick first and whose
\* later tokens came with the given gaps
RECURSIVE TokensWithGaps(_, _, _)
TokensWithGaps(fr, t, gaps) ==
    IF gaps = << >> THEN fr
    ELSE TokensWithGaps(OnToken(fr, t + Head(gaps)), t + Head(gaps), Tail(gaps))

\* a streamed request, sent at the tick sent, that succeeded with these tokens
StreamedWithGaps(sent, first, gaps) ==
    LET fr == TokensWithGaps(OnToken(SendRequestEnter(1, UuidTrace(1), sent, sent),
                                     sent + first),
                             sent + first, gaps)
    IN  MarkSuccess(StreamFinish(fr, fr.most_recent_timestamp)).metrics

\* a streamed request that succeeded without any token
StreamedEmpty == MarkSuccess(StreamFinish(SendRequestEnter(1, UuidTrace(1), 0, 0), 1)).metrics

\* a streamed request that failed after its first token
BrokenAfterToken ==
    ExceptHandler(OnToken(SendRequestEnter(1, UuidTrace(1), 0, 0), 1), KeyErrorText).metrics

\* enrich_with_server_metrics on a record, the span found at the first poll
Enriched(metrics, tags) == EnrichFinish(metrics, SpanMetrics(tags)).metrics

\* the records a list is made of
SummaryRecords ==
    {Enriched(StreamedAt(1, 2), SpanTags(7, 10, 1)),
     Enriched(StreamedAt(2, 5), SpanTags(0, 20, 3)),
     StreamedAt(1, 3),
     StreamedWithGaps(0, 3, <<1, 2>>),
     Enriched(StreamedEmpty, SpanTags(4, 0, 2)),
     RefusedRecord,
     Enriched(BrokenAfterToken, SpanTags(5, 6, 1))}

\* the lists of at most MaxRecords records
SummaryLists == UNION {[1..n -> SummaryRecords] : n \in 0..MaxRecords}

\* five successes with the completion tokens 10, 20, 30, 40, 50
FiveSuccesses == [k \in 1..5 |-> Enriched(StreamedAt(1, 2), SpanTags(7, 10 * k, 1))]

\* the pairs of start_time and end_time, in ticks: the duration is zero,
\* negative, and positive; the last pair is 10 s
SummaryTimes == {<<0, 0>>, <<1, 0>>, <<0, 1>>, <<1, 4>>, <<0, 20>>}

SummaryInit ==
    /\ spc = "ready"
    /\ \E input \in (SummaryLists \X SummaryTimes) \cup {<<FiveSuccesses, <<0, 20>> >>} :
        /\ srecords = input[1]
        /\ sstart = input[2][1]
        /\ send = input[2][2]
    /\ ssummaries = << >>
    \* no call of send_request or enrich_with_server_metrics, no run, no pass
    /\ cpc = "idle" /\ cstream = TRUE /\ cnow = 0 /\ clines = 0 /\ ctokens = << >>
    /\ cstatus = None
    /\ cfr = SendRequestEnter(0, UuidTrace(0), 0, 0)
    /\ epc = "idle" /\ etimeout = 0 /\ enow = 0 /\ estart = 0 /\ edata = EmptyDict
    /\ emetrics = RequestMetrics(0, UuidTrace(0), FALSE, "", None)
    /\ eret = None /\ ereplies = << >>
    /\ rps = 0 /\ nprompts = 0 /\ pc = "idle" /\ now = 0
    /\ start_time = None /\ end_time = None
    /\ tasks = << >> /\ doneq = << >> /\ completed = 0 /\ gresults = << >>
    /\ results = << >> /\ heap = << >> /\ etasks = << >> /\ writers = << >>
    /\ reports = << >>
    /\ ppc = "idle" /\ pnow = 0 /\ precords = << >> /\ pstore = << >> /\ punits = << >>
    /\ dpc = "idle" /\ drecord = RequestMetrics(0, UuidTrace(0), FALSE, "", None) /\ ddict = << >>

\* a mutant: the call drops the failed records from the caller's list
SummaryCallFilters ==
    /\ Len(ssummaries) < MaxCalls
    /\ ssummaries' = Append(ssummaries, CalculateBenchmarkSummary(srecords, sstart, send))
    /\ srecords' = SuccessfulOnly(srecords)
    /\ spc' = "returned"
    /\ UNCHANGED <<sstart, send, clientVars, enrichVars, runVars, passVars, dictVars>>

\* lines 582-656: one call; it reads its arguments and returns a new summary
SummaryCall ==
    /\ Len(ssummaries) < MaxCalls
    /\ ssummaries' = Append(ssummaries, CalculateBenchmarkSummary(srecords, sstart, send))
    /\ srecords' = srecords
    /\ spc' = "returned"
    /\ UNCHANGED <<sstart, send, clientVars, enrichVars, runVars, passVars, dictVars>>

SummaryNext ==
    \/ SummaryCall

SummarySpec == SummaryInit /\ [][SummaryNext]_vars

-----------------------------------------------------------------------------
(* RequestMetrics.to_dict and DictSpec: one call of to_dict on a record    *)
(* the client, the driver or the enrichment produced.                      *)

\* most gaps of a record's gap list
MaxGaps == 3

\* line 87: time.strftime('%Y-%m-%d %H:%M:%S', time.localtime(t)), which
\* keeps the whole seconds of t (given in ticks)
IsoTime(t) == [iso |-> t \div 2]

\* a mutant: the gaps are copied without the conversion to milliseconds
ToDictCopiesSeconds(self) ==
    [request_id |-> self.request_id,
     trace_id |-> self.trace_id,
     success |-> self.success,
     error_message |-> self.error_message,
     timestamp |-> self.send_time,
     send_time_iso |-> IF self.send_time # None /\ Val(self.send_time) # 0
                       THEN Some(IsoTime(Val(self.send_time))) ELSE None,
     client_metrics |-> [e2e_latency_ms |-> self.client_e2e_latency,
                         ttft_ms |-> self.client_ttft,
                         tpot_ms |-> self.client_tpot,
                         itl_ms |-> self.client_itl],
     server_metrics |-> [queue_time_ms |-> self.server_queue_time,
                         prefill_time_ms |-> self.server_prefill_time,
                         decode_time_ms |-> self.server_decode_time,
                         inference_time_ms |-> self.server_inference_time,
                         e2e_time_ms |-> self.server_e2e_time,
                         ttft_ms |-> self.server_ttft],
     tokens |-> [prompt_tokens |-> self.prompt_tokens,
                 completion_tokens |-> self.completion_tokens],
     request_params |-> [model |-> self.model_name,
                         temperature |-> self.temperature,
                         top_p |-> self.top_p,
                         max_tokens |-> self.max_tokens],
     content |-> [generated_text |-> self.generated_text,
                  text_length |-> self.generated_text],
     detailed_data |-> [itl_list_seconds |-> self.client_itl_list,
                        itl_list_ms |-> self.client_itl_list]]

\* lines 79-121.  generated_text is the number of deltas it was made of, and
\* so is its length
ToDict(self) ==
    [request_id |-> self.request_id,
     trace_id |-> self.trace_id,
     success |-> self.success,
     error_message |-> self.error_message,
     timestamp |-> self.send_time,
     send_time_iso |-> IF self.send_time # None /\ Val(self.send_time) # 0
                       THEN Some(IsoTime(Val(self.send_time))) ELSE None,
     client_metrics |-> [e2e_latency_ms |-> self.client_e2e_latency,
                         ttft_ms |-> self.client_ttft,
                         tpot_ms |-> self.client_tpot,
                         itl_ms |-> self.client_itl],
     server_metrics |-> [queue_time_ms |-> self.server_queue_time,
                         prefill_time_ms |-> self.server_prefill_time,
                         decode_time_ms |-> self.server_decode_time,
                         inference_time_ms |-> self.server_inference_time,
                         e2e_time_ms |-> self.server_e2e_time,
                         ttft_ms |-> self.server_ttft],
     tokens |-> [prompt_tokens |-> self.prompt_tokens,
                 completion_tokens |-> self.completion_tokens],
     request_params |-> [model |-> self.model_name,
                         temperature |-> self.temperature,
                         top_p |-> self.top_p,
                         max_tokens |-> self.max_tokens],
     content |-> [generated_text |-> self.generated_text,
                  text_length |-> self.generated_text],
     detailed_data |-> [itl_list_seconds |-> self.client_itl_list,
                        itl_list_ms |-> IF self.client_itl_list # << >>
                                        THEN [k \in 1..Len(self.client_itl_list) |->
                                                 Ms(self.client_itl_list[k])]
                                        ELSE << >>]]

\* the gap lists of at most MaxGaps gaps of at most MaxGap ticks
GapLists == UNION {[1..n -> 0..MaxGap] : n \in 0..MaxGaps}

\* gaps of 5 s, 7 s and 3 s, in ticks
ThreeGaps == <<10, 14, 6>>

\* the records to_dict is called on
DictRecords ==
    {StreamedWithGaps(sent, 1, gaps) : sent \in 0..1, gaps \in GapLists \cup {ThreeGaps}}
    \cup {StreamedEmpty, RefusedRecord, BrokenAfterToken,
          Enriched(StreamedAt(1, 2), SpanTags(7, 10, 1)),
          RequestMetrics(3, FailedTrace, FALSE, "Connection reset by peer", None)}

DictInit ==
    /\ dpc = "ready"
    /\ drecord \in DictRecords
    /\ ddict = << >>
    \* no call of send_request or enrich_with_server_metrics, no run, no pass,
    \* no summary
    /\ cpc = "idle" /\ cstream = TRUE /\ cnow = 0 /\ clines = 0 /\ ctokens = << >>
    /\ cstatus = None
    /\ cfr = SendRequestEnter(0, UuidTrace(0), 0, 0)
    /\ epc = "idle" /\ etimeout = 0 /\ enow = 0 /\ estart = 0 /\ edata = EmptyDict
    /\ emetrics = RequestMetrics(0, UuidTrace(0), FALSE, "", None)
    /\ eret = None /\ ereplies = << >>
    /\ rps = 0 /\ nprompts = 0 /\ pc = "idle" /\ now = 0
    /\ start_time = None /\ end_time = None
    /\ tasks = << >> /\ doneq = << >> /\ completed = 0 /\ gresults = << >>
    /\ results = << >> /\ heap = << >> /\ etasks = << >> /\ writers = << >>
    /\ reports = << >>
    /\ ppc = "idle" /\ pnow = 0 /\ precords = << >> /\ pstore = << >> /\ punits = << >>
    /\ spc = "idle" /\ srecords = << >> /\ sstart = 0 /\ send = 0 /\ ssummaries = << >>

\* lines 79-121: the call builds a new dict and leaves the record as it is
ToDictCall ==
    /\ dpc = "ready"
    /\ ddict' = Some(ToDict(drecord))
    /\ drecord' = drecord
    /\ dpc' = "returned"
    /\ UNCHANGED <<clientVars, enrichVars, runVars, passVars, summaryVars>>

DictNext ==
    \/ ToDictCall

DictSpec == DictInit /\ [][DictNext]_vars

-----------------------------------------------------------------------------
(* Properties of the run (Spec, FairSpec) *)

RequestPhaseOver == pc \in {"collect", "enrich_wait", "returned"}

TaskIds == 1..Len(tasks)

\* C1: in the rate-limited path the unit of index i (from 0) is created with
\* the delay i * (1 / rps), no unit runs and nothing is awaited before all
\* len(prompts) units are created, and a unit begins its request exactly its
\* delay after the start of the run, whatever the state of the units before it.
C1_StartDelays ==
    rps > 0 =>
        /\ \A i \in TaskIds : tasks[i].delay = (i - 1) * (2 \div rps)
        /\ (pc \in Awaiting \/ \E i \in TaskIds : tasks[i].state # "created")
              => Len(tasks) = nprompts
        /\ \A i \in TaskIds :
              tasks[i].started # None
                 => Val(tasks[i].started) = Val(start_time) + (i - 1) * (2 \div rps)

\* a later unit has begun its request while the first one is still in flight
C1_Witness ==
    /\ rps > 0
    /\ Len(tasks) >= 2
    /\ tasks[1].state = "inflight"
    /\ tasks[2].state = "inflight"
    /\ Val(tasks[2].started) > Val(tasks[1].started)

\* C2: with rps <= 0, rps = 0 included, run_benchmark never ends in an error:
\* every unit is launched with zero delay at the start of the run, and the
\* request phase is over only when all len(prompts) units have settled.
C2_UnlimitedNeverFails ==
    rps <= 0 =>
        /\ pc # "error"
        /\ \A i \in TaskIds :
              /\ tasks[i].delay = 0
              /\ tasks[i].started # None => tasks[i].started = start_time
        /\ RequestPhaseOver =>
              /\ Len(tasks) = nprompts
              /\ \A i \in TaskIds : Settled(tasks[i])

\* C5: once the units are launched, in either path and whatever the outcome
\* of each unit, run_benchmark reaches its return with every unit settled.
C5_RequestPhaseEnds ==
    (pc \in {"gather", "unl_gather"})
        ~> (pc = "returned" /\ Len(tasks) = nprompts
            /\ \A i \in TaskIds : Settled(tasks[i]))

\* a run has returned although one unit raised and another one's request failed
C5_Witness ==
    /\ pc = "returned"
    /\ \E i \in TaskIds : tasks[i].state = "raised"
    /\ \E i \in TaskIds : tasks[i].state = "returned" /\ ~heap[tasks[i].result].success

\* lines 325-327 of main: the counts reported for the run
ReportedTotal(rs) == Len(rs)
ReportedSuccessful(rs, h) == Cardinality({k \in 1..Len(rs) : h[rs[k]].success})
ReportedFailed(rs, h) == Cardinality({k \in 1..Len(rs) : ~h[rs[k]].success})

\* C6: after the request phase self.results holds the record of every unit
\* that returned one, each once: no record twice, none lost, len(prompts)
\* records when no unit raised; and the reported counts add up to its length.
C6_ResultsExact ==
    RequestPhaseOver =>
        /\ \A k1, k2 \in 1..Len(results) : k1 # k2 => results[k1] # results[k2]
        /\ \A i1, i2 \in TaskIds :
              (i1 # i2 /\ tasks[i1].state = "returned" /\ tasks[i2].state = "returned")
                 => tasks[i1].result # tasks[i2].result
        /\ {results[k] : k \in 1..Len(results)}
              = {tasks[i].result : i \in {t \in TaskIds : tasks[t].state = "returned"}}
        /\ (\A i \in TaskIds : tasks[i].state # "raised") => Len(results) = nprompts
        /\ ReportedSuccessful(results, heap) + ReportedFailed(results, heap)
              = ReportedTotal(results)
        /\ ReportedTotal(results)
              = Cardinality({t \in TaskIds : tasks[t].state = "returned"})

\* the rate-limited request phase ended with a successful and a failed record
C6_Witness ==
    /\ pc = "collect"
    /\ rps > 0
    /\ ReportedSuccessful(results, heap) >= 1
    /\ ReportedFailed(results, heap) >= 1

RequestWriters(o) == {w \in writers[o] : w[1] = "request"}
EnrichWriters(o) == {w \in writers[o] : w[1] = "enrich"}

\* C7: no enrichment unit exists while a request unit is unsettled; every
\* record is written by exactly one request unit and by at most one
\* enrichment unit; no two enrichment units have the same record.
C7_PhasesDisjoint ==
    /\ etasks # << >> => (Len(tasks) = nprompts /\ \A i \in TaskIds : Settled(tasks[i]))
    /\ \A o \in 1..Len(heap) :
          /\ Cardinality(RequestWriters(o)) = 1
          /\ Cardinality(EnrichWriters(o)) <= 1
          /\ EnrichWriters(o) # {}
                => \A w \in RequestWriters(o) : Settled(tasks[w[2]])
    /\ \A j, k \in 1..Len(etasks) : j # k => etasks[j].obj # etasks[k].obj

\* two enrichment units at work on two records, one of them done
C7_Witness ==
    /\ Len(etasks) >= 2
    /\ etasks[1].state = "done"
    /\ etasks[2].state = "running"
    /\ EnrichWriters(etasks[1].obj) # {}

ServerTimingFields ==
    {"server_queue_time", "server_prefill_time", "server_decode_time",
     "server_inference_time", "server_e2e_time", "server_ttft"}

ServerTimingsUnset(m) == \A f \in ServerTimingFields : m[f] = None
ServerTimingsSet(m) == \A f \in ServerTimingFields : m[f] # None

ServerSideUnset(m) ==
    /\ ServerTimingsUnset(m)
    /\ m.prompt_tokens = None
    /\ m.completion_tokens = None

\* C8: the enrichment pass has exactly one unit for each record of
\* self.results with success = true and none for one with success = false,
\* and the server-side fields and token counts of a failed record stay unset.
C8_OnlySuccessfulEnriched ==
    /\ pc \in {"enrich_wait", "returned"} =>
          \A k \in 1..Len(results) :
              Cardinality({j \in 1..Len(etasks) : etasks[j].obj = results[k]})
                 = IF heap[results[k]].success THEN 1 ELSE 0
    /\ \A j \in 1..Len(etasks) : \E k \in 1..Len(results) : etasks[j].obj = results[k]
    /\ \A o \in 1..Len(heap) : ~heap[o].success => ServerSideUnset(heap[o])

\* a run has returned with a failed record and an enriched successful one
C8_Witness ==
    /\ pc = "returned"
    /\ \E k \in 1..Len(results) : ~heap[results[k]].success
    /\ \E j \in 1..Len(etasks) :
          etasks[j].ret = Some(TRUE) /\ ServerTimingsSet(heap[etasks[j].obj])

-----------------------------------------------------------------------------
(* Properties of one call of send_request (ClientSpec) *)

ClientTimingsUnset(m) ==
    /\ m.client_e2e_latency = 0
    /\ m.client_ttft = None
    /\ m.client_tpot = None
    /\ m.client_itl = None
    /\ m.client_itl_list = << >>

\* C3: a record returned with success = false has every timing field unset
\* (the client's, at their defaults, and the server's), wherever the request
\* failed, also after some tokens of the stream were received.
C3_FailedRecordUnset ==
    (cpc = "returned" /\ ~cfr.metrics.success)
        => (ClientTimingsUnset(cfr.metrics) /\ ServerTimingsUnset(cfr.metrics))

\* C4 as stated: a record returned with success = true has the end-to-end
\* latency of the call, non-negative, and, when streamed, a TTFT that is set
\* and non-negative, for every stream content.
C4_SuccessHasTtft ==
    (cpc = "returned" /\ cfr.metrics.success)
        => /\ cfr.metrics.client_e2e_latency = Ms(cnow - cfr.start_time)
           /\ cfr.metrics.client_e2e_latency >= 0
           /\ cstream => (cfr.metrics.client_ttft # None
                          /\ Val(cfr.metrics.client_ttft) >= 0)

\* C4 as amended: a record returned with success = true has the end-to-end
\* latency of the call, non-negative, and, when streamed with at least one
\* non-empty content delta, the TTFT of the first such delta, non-negative;
\* without such a delta (or when not streamed) the TTFT is unset.
C4_SuccessTimings ==
    (cpc = "returned" /\ cfr.metrics.success)
        => /\ cfr.metrics.client_e2e_latency = Ms(cnow - cfr.start_time)
           /\ cfr.metrics.client_e2e_latency >= 0
           /\ (cstream /\ ctokens # << >>)
                 => /\ cfr.metrics.client_ttft = Some(Ms(ctokens[1] - cfr.start_time))
                    /\ Val(cfr.metrics.client_ttft) >= 0
           /\ (~cstream \/ ctokens = << >>) => cfr.metrics.client_ttft = None

\* a streamed request succeeded after two tokens, some time after its start
C4_Witness ==
    /\ cpc = "returned"
    /\ cfr.metrics.success
    /\ cstream
    /\ Len(ctokens) = 2
    /\ cfr.metrics.client_e2e_latency > 0
    /\ cfr.metrics.client_ttft # None

-----------------------------------------------------------------------------
(* Properties of one call of enrich_with_server_metrics (EnrichSpec) *)

\* C9: after the call on a successful record, the six server timing fields
\* are set exactly when the call returned True.
C9_ServerTimingsIffSuccess ==
    (epc = "returned" /\ emetrics.success)
        => (ServerTimingsSet(emetrics) <=> eret = Some(TRUE))

LlmSpans(reply) ==
    {i \in 1..Len(SpansOf(reply.data)) : SpansOf(reply.data)[i].operationName = "llm_request"}

\* the reply is no trace, or a trace without the span, or its span carries
\* none of the expected attributes
NothingToExtract(reply) ==
    \/ reply.kind # "ok"
    \/ reply.data = << >>
    \/ LlmSpans(reply) = {}
    \/ \A i \in LlmSpans(reply) :
          DOMAIN SpansOf(reply.data)[i].tags \cap (LatencyTags \cup OtherTags) = {}

\* C10: when no poll of the call found the trace, or the span, or any of the
\* expected attributes on the span, the call returns False and the record's
\* server-side fields are unset.
C10_AbsentDataFails ==
    (epc = "returned" /\ \A k \in 1..Len(ereplies) : NothingToExtract(ereplies[k]))
        => (eret = Some(FALSE) /\ ServerSideUnset(emetrics))

\* the fields of a record the request wrote: outcome, client timings, text
ClientFields ==
    {"success", "error_message", "client_e2e_latency", "client_ttft", "client_tpot",
     "client_itl", "client_itl_list", "generated_text"}

\* C11: no step of enrich_with_server_metrics, whether the call ends with
\* True or False, changes the record's success flag, error message, client
\* end-to-end latency, client TTFT, TPOT, ITL, gap list or generated text.
C11_EnrichKeepsClientFields ==
    [][\A f \in ClientFields : emetrics'[f] = emetrics[f]]_vars

\* a successful request stays successful, with its client timings, after its
\* enrichment failed at the timeout
C11_Witness ==
    /\ epc = "returned"
    /\ eret = Some(FALSE)
    /\ Len(ereplies) >= 1
    /\ emetrics.success
    /\ emetrics.client_ttft # None
    /\ emetrics.client_itl_list # << >>

-----------------------------------------------------------------------------
(* Properties of the enrichment pass (PassSpec, FairPassSpec) *)

\* the trace of unit j's record is served at one of the polls of its call
ServedInWindow(j) ==
    /\ punits[j].start # None
    /\ pstore[punits[j].obj] # None
    /\ Val(pstore[punits[j].obj]) < Val(punits[j].start) + PassTimeout

C12_Safety ==
    /\ ppc = "returned" => \A j \in UnitIds : punits[j].state = "done"
    /\ \A j \in UnitIds :
          /\ punits[j].lastpoll # None
                => Val(punits[j].lastpoll) - Val(punits[j].start) < PassTimeout
          /\ punits[j].ret = Some(FALSE)
                => Val(punits[j].ended) - Val(punits[j].start) >= PassTimeout
          /\ (punits[j].state = "done" /\ punits[j].start # None)
                => (ServedInWindow(j)
                      <=> (punits[j].ret = Some(TRUE)
                           /\ ServerTimingsSet(precords[punits[j].obj])))

\* C12: the pass returns only when every unit has settled, and it does
\* return, whatever units time out or raise; a call polls only within its
\* timeout counted from its own start and gives up no earlier; and a record
\* whose trace is served within its unit's own timeout is enriched, whatever
\* became of the other units.
C12_UnitsIndependent ==
    /\ []C12_Safety
    /\ (ppc = "wait") ~> (ppc = "returned")

\* the pass returned after one call timed out and a call that had waited for
\* a worker, started later, was enriched
C12_Witness ==
    /\ ppc = "returned"
    /\ \E j \in UnitIds : punits[j].ret = Some(FALSE)
    /\ \E j \in UnitIds :
          /\ punits[j].ret = Some(TRUE)
          /\ Val(punits[j].start) > 0
          /\ ServerTimingsSet(precords[punits[j].obj])

-----------------------------------------------------------------------------
(* Properties of an interrupted run (CancelSpec) *)

\* the fields that identify a record and those its request wrote
CollectedFields == ClientFields \cup {"request_id", "trace_id", "send_time"}

C13_AfterCancel ==
    pc = "cancelled" =>
        /\ \A k \in 1..Len(MainResults) : heap[MainResults[k]].success
        /\ \A k \in 1..Len(results) :
              \E i \in TaskIds : tasks[i].state = "returned" /\ tasks[i].result = results[k]

C13_CancelStep ==
    pc' = "cancelled" =>
        /\ Len(tasks') = Len(tasks)
        /\ \A i \in TaskIds : tasks'[i].started = tasks[i].started
        /\ Len(heap') = Len(heap)
        /\ \A o \in 1..Len(heap) : \A f \in CollectedFields : heap'[o][f] = heap[o][f]
        /\ results' = results

-----------------------------------------------------------------------------
(* Properties of the records (ClientSpec, Spec) *)

\* C14: a record returned by send_request has a non-empty error message
\* exactly when its success flag is false, whatever made the request fail.
C14_ErrorIffFailed ==
    cpc = "returned" => (cfr.metrics.error_message # "" <=> ~cfr.metrics.success)

\* C15: the records of self.results have pairwise different trace ids, the
\* failed records built by the driver included.
C15_TraceIdsUnique ==
    RequestPhaseOver =>
        \A k1, k2 \in 1..Len(results) :
            k1 # k2 => heap[results[k1]].trace_id # heap[results[k2]].trace_id

-----------------------------------------------------------------------------
(* Properties of calculate_benchmark_summary (SummarySpec) *)

Calls == 1..Len(ssummaries)

SuccessfulIndexes == {k \in 1..Len(srecords) : srecords[k].success}

\* the sum of a token field over the successful records, unset taken as 0
ExpectedTokens(field) ==
    SumSeq([k \in 1..Len(srecords) |->
               IF srecords[k].success /\ srecords[k][field] # None
               THEN Val(srecords[k][field])
               ELSE 0])

\* C16: total_requests is the length of the list, successful_requests the
\* number of its records with success = true, failed_requests the rest, and
\* the two add up to the total.
C16_CountsAddUp ==
    \A c \in Calls :
        /\ ssummaries[c].total_requests = Len(srecords)
        /\ ssummaries[c].successful_requests = Len(SelectSeq(srecords, LAMBDA r : r.success))
        /\ ssummaries[c].failed_requests
              = ssummaries[c].total_requests - ssummaries[c].successful_requests
        /\ ssummaries[c].successful_requests + ssummaries[c].failed_requests
              = ssummaries[c].total_requests

\* a summary of a list with successful and failed records
C16_Witness ==
    /\ Calls # {}
    /\ ssummaries[1].successful_requests >= 1
    /\ ssummaries[1].failed_requests >= 2

\* C17: the token totals are the sums of prompt_tokens and completion_tokens
\* over the successful records, an unset count taken as 0; a successful
\* record without counts is counted as successful and adds 0, a failed
\* record adds nothing whatever its fields hold.
C17_TokenTotals ==
    \A c \in Calls :
        /\ ssummaries[c].total_input_tokens = ExpectedTokens("prompt_tokens")
        /\ ssummaries[c].total_output_tokens = ExpectedTokens("completion_tokens")
        /\ ssummaries[c].successful_requests = Cardinality(SuccessfulIndexes)

\* a summary of a list with an enriched success, a success without token
\* counts and a failed record that holds token counts
C17_Witness ==
    /\ Calls # {}
    /\ \E k \in SuccessfulIndexes : srecords[k].completion_tokens = None
    /\ \E k \in SuccessfulIndexes : srecords[k].completion_tokens = Some(10)
    /\ \E k \in 1..Len(srecords) :
          ~srecords[k].success /\ srecords[k].completion_tokens = Some(6)
    /\ ssummaries[1].successful_requests = 2
    /\ ssummaries[1].total_output_tokens = 10

\* the fraction is n per second over the duration (in ticks), computed
\* without a division by zero
IsPerSecond(rat, n, duration) ==
    /\ rat.den # 0
    /\ rat.num * duration = 2 * n * rat.den

\* C18: with a positive duration the three throughputs are the successful
\* requests, the output tokens and all tokens per second of the duration
\* (completion tokens 10, 20, 30, 40, 50 over 10 s give 15 output tokens per
\* second); otherwise all three are 0 and nothing is divided.
C18_Throughputs ==
    \A c \in Calls :
        LET sm == ssummaries[c] IN
        /\ sm.benchmark_duration = send - sstart
        /\ send - sstart > 0 =>
              /\ IsPerSecond(sm.request_throughput, sm.successful_requests, send - sstart)
              /\ IsPerSecond(sm.output_token_throughput, sm.total_output_tokens,
                             send - sstart)
              /\ IsPerSecond(sm.total_token_throughput,
                             sm.total_input_tokens + sm.total_output_tokens, send - sstart)
        /\ send - sstart <= 0 =>
              /\ sm.request_throughput = Zero
              /\ sm.output_token_throughput = Zero
              /\ sm.total_token_throughput = Zero
        /\ (srecords = FiveSuccesses /\ send - sstart = 20) =>
              /\ sm.total_output_tokens = 150
              /\ sm.output_token_throughput.num = 15 * sm.output_token_throughput.den

\* the summary of the five successes over 10 s
C18_Witness ==
    /\ Calls # {}
    /\ srecords = FiveSuccesses
    /\ send - sstart = 20
    /\ ssummaries[1].output_token_throughput.num
          = 15 * ssummaries[1].output_token_throughput.den

StatFields ==
    {"mean_ttft", "median_ttft", "p99_ttft", "mean_tpot", "median_tpot", "p99_tpot",
     "mean_itl", "median_itl", "p99_itl",
     "mean_queue_time", "median_queue_time", "p99_queue_time"}

ThroughputFields ==
    {"request_throughput", "output_token_throughput", "total_token_throughput"}

\* C19: every call returns; for the empty list all counts and throughputs
\* are 0; for a list of failed records only, the token totals, the
\* throughputs and every mean, median and p99 are 0 and failed_requests is
\* the length of the list.
C19_DegenerateInputs ==
    /\ spc = "returned" => Calls # {}
    /\ \A c \in Calls :
        LET sm == ssummaries[c] IN
        /\ \A f \in StatFields \cup ThroughputFields : sm[f].den # 0
        /\ srecords = << >> =>
              /\ sm.total_requests = 0
              /\ sm.successful_requests = 0
              /\ sm.failed_requests = 0
              /\ \A f \in ThroughputFields : sm[f].num = 0
        /\ SuccessfulIndexes = {} =>
              /\ sm.total_input_tokens = 0
              /\ sm.total_output_tokens = 0
              /\ \A f \in StatFields \cup ThroughputFields : sm[f].num = 0
              /\ sm.failed_requests = Len(srecords)

\* the summary, over a positive duration, of failed records that hold a
\* TTFT and token counts
C19_Witness ==
    /\ Calls # {}
    /\ send - sstart > 0
    /\ Len(srecords) = MaxRecords
    /\ SuccessfulIndexes = {}
    /\ \E k \in 1..Len(srecords) :
          srecords[k].client_ttft # None /\ srecords[k].completion_tokens # None
    /\ ssummaries[1].failed_requests = MaxRecords

C20_SameSummaries == \A c1, c2 \in Calls : ssummaries[c1] = ssummaries[c2]

C20_ArgumentsKept == srecords' = srecords /\ sstart' = sstart /\ send' = send

-----------------------------------------------------------------------------
(* Properties of RequestMetrics.to_dict (DictSpec) *)

\* C21: in the dict of a record, itl_list_seconds is the record's gap list
\* and itl_list_ms has its length and order, each element the gap times 1000
\* (a gap of g ticks is g / 2 seconds); gaps of 5 s, 7 s and 3 s give 5000,
\* 7000 and 3000 ms, and an empty gap list gives an empty itl_list_ms.
C21_ItlListMs ==
    ddict # None =>
        LET detailed == Val(ddict).detailed_data IN
        /\ detailed.itl_list_seconds = drecord.client_itl_list
        /\ Len(detailed.itl_list_ms) = Len(detailed.itl_list_seconds)
        /\ \A k \in 1..Len(detailed.itl_list_ms) :
              2 * detailed.itl_list_ms[k] = 1000 * detailed.itl_list_seconds[k]
        /\ drecord.client_itl_list = ThreeGaps => detailed.itl_list_ms = <<5000, 7000, 3000>>
        /\ drecord.client_itl_list = << >> => detailed.itl_list_ms = << >>

\* the dict of the record with the gaps of 5 s, 7 s and 3 s
C21_Witness ==
    /\ dpc = "returned"
    /\ drecord.client_itl_list = ThreeGaps
    /\ Val(ddict).detailed_data.itl_list_ms = <<5000, 7000, 3000>>

-----------------------------------------------------------------------------
(* Properties of the stream processing (ClientSpec) *)

\* the times between the arrivals of consecutive tokens
ArrivalGaps == [k \in 1..(Len(ctokens) - 1) |-> ctokens[k + 1] - ctokens[k]]

C22_Timeline ==
    /\ cfr.inter_token_latencies = ArrivalGaps
    /\ ctokens = << >> => cfr.metrics.client_ttft = None
    /\ ctokens # << >> => cfr.metrics.client_ttft = Some(Ms(ctokens[1] - cfr.start_time))
    /\ (cpc = "returned" /\ cfr.metrics.success /\ cstream) =>
          /\ cfr.metrics.client_itl_list = ArrivalGaps
          /\ ctokens # << >> => Len(cfr.metrics.client_itl_list) = Len(ctokens) - 1

C22_TokenStep ==
    /\ cfr.metrics.client_ttft # None => cfr.metrics.client_ttft' = cfr.metrics.client_ttft
    /\ Len(ctokens') \in {Len(ctokens), Len(ctokens) + 1}
    /\ Len(ctokens') = Len(ctokens) =>
          cfr.inter_token_latencies' = cfr.inter_token_latencies
    /\ (Len(ctokens') = Len(ctokens) + 1 /\ ctokens # << >>) =>
          cfr.inter_token_latencies'
             = Append(cfr.inter_token_latencies, cnow' - ctokens[Len(ctokens)])
    /\ cpc = "stream_end" =>
          /\ ctokens' = ctokens
          /\ cfr.generated_text' = cfr.generated_text
          /\ cfr.inter_token_latencies' = cfr.inter_token_latencies

\* C22: the TTFT is set at the first non-empty content delta and never
\* again; every later such delta appends one gap, the time since the token
\* before it, so that the gap list of a successful stream of k >= 1 tokens
\* has the k - 1 gaps in arrival order; nothing is added after [DONE].
C22_TokenTimeline ==
    /\ []C22_Timeline
    /\ [][C22_TokenStep]_vars

\* a stream of three tokens with different gaps between them succeeded
C22_Witness ==
    /\ cpc = "returned"
    /\ cfr.metrics.success
    /\ Len(ctokens) = 3
    /\ cfr.metrics.client_itl_list = <<1, 2>>
    /\ Val(cfr.metrics.client_ttft) > 0

\* C23: in every record client_tpot and client_itl are equal; both are unset
\* exactly when the record's gap list is empty (never 0 for an empty list),
\* and otherwise both hold the mean of the gap list in milliseconds (to the
\* millisecond).
C23_TpotIsItl ==
    LET m == cfr.metrics
        n == Len(m.client_itl_list)
    IN  /\ m.client_tpot = m.client_itl
        /\ m.client_tpot = None <=> m.client_itl_list = << >>
        /\ m.client_itl_list # << >> =>
              /\ Val(m.client_tpot) * n <= 500 * SumSeq(m.client_itl_list)
              /\ 500 * SumSeq(m.client_itl_list) < (Val(m.client_tpot) + 1) * n

\* a stream succeeded with the gaps of 0.5 s and 1 s: both means are 750 ms
C23_Witness ==
    /\ cpc = "returned"
    /\ cfr.metrics.success
    /\ cfr.metrics.client_itl_list = <<1, 2>>
    /\ cfr.metrics.client_tpot = Some(750)
    /\ cfr.metrics.client_itl = Some(750)

\* C24: no data event read from the stream fails the request, whatever it
\* holds (undecodable JSON, a payload without choices[0].delta): after the
\* line is read the call goes on, without an error, to the next line or to
\* the end of the stream.
C24_MalformedSkipped ==
    [][clines' = clines + 1
          => (cpc' \in {"streaming", "stream_end"} /\ cfr.metrics.error_message' = "")]_vars

\* the statuses of a successful response, 2xx
Is2xx(status) == status \in 200..299

\* C25: a response with a status other than 2xx gives a failed record whose
\* error message holds the status and the body, and nothing of the body is
\* read as a stream or a completion; a response with a 2xx status gives a
\* failed record only when reading it fails, never because of its status.
C25_StatusDecides ==
    (cpc = "returned" /\ cstatus # None) =>
        /\ ~Is2xx(Val(cstatus)) =>
              /\ ~cfr.metrics.success
              /\ cfr.metrics.error_message = HttpErrorText(Val(cstatus))
              /\ clines = 0
              /\ cfr.metrics.client_e2e_latency = 0
              /\ cfr.metrics.generated_text = 0
        /\ (Is2xx(Val(cstatus)) /\ ~cfr.metrics.success) =>
              cfr.metrics.error_message \in ExcMessages \cup {KeyErrorText}

-----------------------------------------------------------------------------
(* Properties of the poll loop of enrich_with_server_metrics (FairEnrichSpec) *)

\* the reply is a trace from which server data are extracted
YieldsData(reply) ==
    reply.kind = "ok" /\ Truthy(ExtractServerMetricsFromTrace(reply.data))

C26_Polls ==
    /\ \A k \in 1..(Len(ereplies) - 1) : ~YieldsData(ereplies[k])
    /\ (ereplies # << >> /\ YieldsData(ereplies[Len(ereplies)])) =>
          /\ epc \in {"finish", "returned"}
          /\ edata = ExtractServerMetricsFromTrace(ereplies[Len(ereplies)].data)
    /\ epc = "poll" => enow - estart < etimeout
    /\ epc = "returned" =>
          /\ eret = Some(TRUE) <=> (ereplies # << >> /\ YieldsData(ereplies[Len(ereplies)]))
          /\ eret = Some(FALSE) => enow - estart >= etimeout
          /\ etimeout = 0 => (eret = Some(FALSE) /\ ereplies = << >>)

C26_PollStep ==
    /\ (Len(ereplies') = Len(ereplies) + 1 /\ ~YieldsData(ereplies'[Len(ereplies')]))
          => epc' = "sleep"
    /\ epc = "sleep" => (enow' = enow + PollSleep /\ epc' = "test")

\* C26: the call polls only while its timeout has not elapsed, with the
\* same pause after every poll that gave nothing (a failed GET, a status
\* other than 200, a trace without the span); the first poll that gives
\* data is the last one and the call returns True; otherwise it returns
\* False once the timeout has elapsed, with a timeout of 0 without any
\* poll; and the call always returns.
C26_PollLoopEnds ==
    /\ []C26_Polls
    /\ [][C26_PollStep]_vars
    /\ <>(epc = "returned")

\* the call returned True at its second poll, one pause after a poll that
\* got a trace without the span
C26_Witness ==
    /\ epc = "returned"
    /\ eret = Some(TRUE)
    /\ Len(ereplies) = 2
    /\ ereplies[1].kind = "ok"
    /\ ~YieldsData(ereplies[1])
    /\ enow - estart >= PollSleep

-----------------------------------------------------------------------------
(* Properties of _gather_with_progress (Spec) *)

\* the completions at which a progress line is due
Milestones == {c \in 1..completed : c % ProgressEvery = 0 \/ c = nprompts}

C27_Reports ==
    /\ completed <= Len(tasks)
    /\ (rps > 0 /\ RequestPhaseOver) => completed = nprompts
    /\ {reports[k].completed : k \in 1..Len(reports)} = Milestones
    /\ \A j, k \in 1..Len(reports) : j < k => reports[j].completed < reports[k].completed

C27_Completion ==
    /\ completed' \in {completed, completed + 1}
    /\ completed' = completed + 1 =>
          /\ doneq # << >>
          /\ Settled(tasks[Head(doneq)])
          /\ doneq' = Tail(doneq)
    /\ Len(reports') = Len(reports) + 1 =>
          /\ reports'[Len(reports')].completed = completed'
          /\ reports'[Len(reports')].successful = ReportedSuccessful(gresults', heap')

\* C27: the settled units are taken in the order they settled, completed
\* rises by one for each and reaches len(prompts), and a progress line with
\* the counts of completed units and successful records so far is printed
\* at every 50th completion and at the last one, whatever the outcome of
\* the unit taken there.
C27_ProgressMilestones ==
    /\ []C27_Reports
    /\ [][C27_Completion]_vars

-----------------------------------------------------------------------------
(* Properties of the latency statistics (SummarySpec) *)

RECURSIVE Flatten(_)
Flatten(lists) == IF lists = << >> THEN << >> ELSE Head(lists) \o Flatten(Tail(lists))

\* the values of the successful records, each record giving those of
\* given[k], in the order of the list
FromSuccessful(given) ==
    Flatten([k \in 1..Len(srecords) |-> IF srecords[k].success THEN given[k] ELSE << >>])

StatsAreZero(sm, mean, median, p99) == sm[mean] = Zero /\ sm[median] = Zero /\ sm[p99] = Zero

\* C28: each dimension takes its values from the successful records only:
\* TTFT the client's value, else the server's, when set; TPOT the client's
\* value when set; the queue time the server's value when set; ITL every
\* gap of every gap list, in milliseconds.  A failed record gives no value,
\* and a dimension without values has the mean, median and p99 0.
C28_DimensionValues ==
    \A c \in Calls :
        LET sm == ssummaries[c]
            indexes == 1..Len(srecords)
        IN  /\ sm.ttft_values
                  = FromSuccessful([k \in indexes |->
                        IF srecords[k].client_ttft # None THEN srecords[k].client_ttft
                        ELSE srecords[k].server_ttft])
            /\ sm.tpot_values = FromSuccessful([k \in indexes |-> srecords[k].client_tpot])
            /\ sm.queue_time_values
                  = FromSuccessful([k \in indexes |-> srecords[k].server_queue_time])
            /\ sm.itl_values
                  = FromSuccessful([k \in indexes |->
                        [g \in 1..Len(srecords[k].client_itl_list) |->
                            500 * srecords[k].client_itl_list[g]]])
            /\ Len(sm.itl_values)
                  = SumSeq([k \in indexes |->
                        IF srecords[k].success THEN Len(srecords[k].client_itl_list) ELSE 0])
            /\ sm.ttft_values = << >> => StatsAreZero(sm, "mean_ttft", "median_ttft", "p99_ttft")
            /\ sm.tpot_values = << >> => StatsAreZero(sm, "mean_tpot", "median_tpot", "p99_tpot")
            /\ sm.itl_values = << >> => StatsAreZero(sm, "mean_itl", "median_itl", "p99_itl")
            /\ sm.queue_time_values = << >>
                  => StatsAreZero(sm, "mean_queue_time", "median_queue_time", "p99_queue_time")

\* the summary of a failed record that holds a TTFT and a queue time, a
\* success without tokens whose TTFT is the server's, and a success with
\* two gaps
C28_Witness ==
    /\ Calls # {}
    /\ \E k \in 1..Len(srecords) :
          /\ ~srecords[k].success
          /\ srecords[k].client_ttft # None
          /\ srecords[k].server_queue_time # None
    /\ \E k \in SuccessfulIndexes :
          srecords[k].client_ttft = None /\ srecords[k].server_ttft # None
    /\ \E k \in SuccessfulIndexes : Len(srecords[k].client_itl_list) = 2
    /\ Len(ssummaries[1].ttft_values) = 2
    /\ Len(ssummaries[1].itl_values) = 2
    /\ Len(ssummaries[1].tpot_values) = 1
    /\ Len(ssummaries[1].queue_time_values) = 1

\* the fields of a summary that do not name the records one by one
AggregateFields ==
    {"total_requests", "successful_requests", "failed_requests", "benchmark_duration",
     "total_input_tokens", "total_output_tokens"} \cup ThroughputFields \cup StatFields

\* the list in the order given by a permutation of its indexes
Reordered(rs, perm) == [k \in 1..Len(rs) |-> rs[perm[k]]]

EnrichBegun(ets) == {j \in 1..Len(ets) : ets[j].state \in {"running", "done"}}

\* the bracket in a state: end_time is set only when start_time is and every
\* one of the N request units has settled, enrichment units exist only when
\* end_time is set, and a run that has returned has its end_time and no
\* enrichment unit short of done, one for each successful record
C30_Bracket ==
    /\ end_time # None =>
          /\ start_time # None
          /\ Val(start_time) <= Val(end_time)
          /\ Val(end_time) <= now
          /\ Len(tasks) = nprompts
          /\ \A i \in TaskIds : Settled(tasks[i])
    /\ etasks # << >> => end_time # None
    /\ pc = "returned" =>
          /\ end_time # None
          /\ \A j \in 1..Len(etasks) : etasks[j].state = "done"
          /\ \A k \in 1..Len(results) :
                heap[results[k]].success =>
                    Cardinality({j \in 1..Len(etasks) : etasks[j].obj = results[k]}) = 1

\* the bracket in a step: end_time is taken from the clock, once, in a step
\* that leaves no enrichment unit behind; a step in which an enrichment unit
\* begins or ends its call, or writes a record, or in which the clock
\* advances during the pass, finds end_time taken and leaves it as it is
C30_BracketStep ==
    /\ end_time # None => end_time' = end_time
    /\ (end_time = None /\ end_time' # None) =>
          /\ end_time' = Some(now)
          /\ etasks = << >> /\ etasks' = << >>
    /\ (\/ EnrichBegun(etasks') # EnrichBegun(etasks)
        \/ \E o \in 1..Len(heap) : EnrichWriters(o) # EnrichWriters(o)'
        \/ (pc = "enrich_wait" /\ now' # now)) =>
          /\ end_time # None
          /\ Val(end_time) <= now
          /\ end_time' = end_time

\* C30: in every run end_time is taken after all N request units have settled
\* and before the first enrichment unit starts, it is not taken again, so the
\* duration from start_time to end_time holds no time of the enrichment pass,
\* and when run_benchmark returns its records every enrichment unit has ended.
C30_EndTimeBracket == []C30_Bracket /\ [][C30_BracketStep]_vars

\* a run has returned after two requests, one of them enriched while the clock
\* advanced past end_time
C30_Witness ==
    /\ pc = "returned"
    /\ Len(results) = 2
    /\ Len(etasks) >= 1
    /\ \A j \in 1..Len(etasks) : etasks[j].state = "done"
    /\ Val(start_time) < Val(end_time)
    /\ Val(end_time) < now

====
